---- MODULE Spec2Model ----
(***************************************************************************)
(* The chainable wrapper and the lazy evaluation engine of lodash.js:      *)
(* LodashWrapper / LazyWrapper objects, the lazy dispatch of the wrapper   *)
(* methods, lazyValue, and the eager array functions they fall back to.    *)
(***************************************************************************)
EXTENDS Integers, Sequences, FiniteSets, TLC

\* ---------------------------------------------------------------- bounds
MaxLen == 2
MaxVal == 2
MaxCalls == 3
MaxValues == 2
MaxEvals == 1

\* ------------------------------------------------------------- constants
POSITIVE_INFINITY == 999
LAZY_DROP_WHILE_FLAG == 0
LAZY_FILTER_FLAG == 1
LAZY_MAP_FLAG == 2
LAZY_TAKE_WHILE_FLAG == 3

nativeMin(a, b) == IF a < b THEN a ELSE b
nativeMax(a, b) == IF a > b THEN a ELSE b

\* ------------------------------------------------------------ JS values
\* t: "arr", "num" (a = <<x>>), "true", "false", "undef", or "err" (a
\* TypeError was thrown).  An array that some object keeps a reference to
\* (the caller's source array, a committed or planted value) lives in the
\* variable arrays and is named by ref > 0, because Array.prototype methods
\* change it in place; ref = 0 is an array created during an evaluation,
\* with its elements in a.
Arr(s) == [t |-> "arr", a |-> s, ref |-> 0]
ArrRef(r) == [t |-> "arr", a |-> <<>>, ref |-> r]
Num(x) == [t |-> "num", a |-> <<x>>, ref |-> 0]
Bool(b) == [t |-> IF b THEN "true" ELSE "false", a |-> <<>>, ref |-> 0]
Undef == [t |-> "undef", a |-> <<>>, ref |-> 0]
Err == [t |-> "err", a |-> <<>>, ref |-> 0]
\* The exception a caller's iteratee throws; it names the element x the
\* iteratee was called with.
Thrown(x) == [t |-> "err", a |-> <<x>>, ref |-> 0]
isArray(v) == v.t = "arr"

\* ------------------------------------------------------- user iteratees
\* Predicates and transforms the caller passes; each is a function with
\* the declared parameter count fnLength.
Preds == {"odd", "gt1"}
Maps == {"inc"}
\* The caller's functions declared as function(value, index, collection).
ThreeParams == {"odd3", "evenIndex", "plusIndex"}

\* Every function taken to have length 1.
fnLengthOne(f) == 1

fnLength(f) == IF f \in ThreeParams THEN 3 ELSE 1

callPred(f, x) ==
  CASE f = "odd" -> x % 2 = 1
    [] f = "odd3" -> x % 2 = 1
    [] f = "gt1" -> x > 1
    [] f = "identity" -> x # 0
    [] f = "!odd" -> ~(x % 2 = 1)
    [] f = "!gt1" -> ~(x > 1)
    [] f = "!identity" -> ~(x # 0)
    [] f = "oddThrow2" -> x % 2 = 1
    [] f = "!oddThrow2" -> ~(x % 2 = 1)
    [] f = "!evenIndex" -> TRUE
    [] OTHER -> FALSE

\* function(value) { return !predicate(value); } of reject
negate(predicate) ==
  CASE predicate = "odd" -> "!odd"
    [] predicate = "gt1" -> "!gt1"
    [] predicate = "oddThrow2" -> "!oddThrow2"
    [] predicate = "evenIndex" -> "!evenIndex"
    [] OTHER -> "!identity"

callMap(f, x) ==
  CASE f = "inc" -> x + 1
    [] f = "incThrow3" -> x + 1
    [] OTHER -> x

\* The iteratee called with (value, index, collection), as the eager
\* functions call it: evenIndex is function(v, i, c) { return i % 2 == 0; }
\* and plusIndex is function(v, i, c) { return v + i; }.  Called with the
\* value alone, i is undefined: evenIndex returns false (callPred) and
\* plusIndex NaN.
callPredAt(f, x, index) ==
  IF f = "evenIndex" THEN index % 2 = 0
  ELSE IF f = "!evenIndex" THEN ~(index % 2 = 0)
  ELSE callPred(f, x)
callMapAt(f, x, index) ==
  IF f = "plusIndex" THEN x + index ELSE callMap(f, x)

\* Whether the iteratee throws when called with x: oddThrow2 is
\* function(x) { if (x == 2) throw e; return x % 2 == 1; } and incThrow3
\* is function(x) { if (x == 3) throw e; return x + 1; }.
throws(f, x) ==
  \/ f \in {"oddThrow2", "!oddThrow2"} /\ x = 2
  \/ f = "incThrow3" /\ x = 3

\* --------------------------------------------------- eager array functions
nativeReverseSeq(s) == [i \in 1..Len(s) |-> s[Len(s) + 1 - i]]

baseSlice(array, start0, hasEnd, end0) ==
  LET length == Len(array)
      start == IF start0 < 0
                 THEN (IF -start0 > length THEN 0 ELSE length + start0)
                 ELSE start0
      end1 == IF ~hasEnd \/ end0 > length THEN length ELSE end0
      end == IF end1 < 0 THEN end1 + length ELSE end1
      n == IF start > end THEN 0 ELSE end - start
  IN [i \in 1..n |-> array[i + start]]

drop(array, n) ==
  IF Len(array) = 0 THEN <<>>
  ELSE baseSlice(array, IF n < 0 THEN 0 ELSE n, FALSE, 0)

dropRight(array, n) ==
  IF Len(array) = 0 THEN <<>>
  ELSE LET m == Len(array) - n
       IN baseSlice(array, 0, TRUE, IF m < 0 THEN 0 ELSE m)

\* take passing a negative n on to baseSlice as its end.
takeNegativeFromEnd(array, n) ==
  IF Len(array) = 0 THEN <<>>
  ELSE baseSlice(array, 0, TRUE, n)

take(array, n) ==
  IF Len(array) = 0 THEN <<>>
  ELSE baseSlice(array, 0, TRUE, IF n < 0 THEN 0 ELSE n)

takeRight(array, n) ==
  IF Len(array) = 0 THEN <<>>
  ELSE LET m == Len(array) - n
       IN baseSlice(array, IF m < 0 THEN 0 ELSE m, FALSE, 0)

slice(array, start, hasEnd, end) ==
  IF Len(array) = 0 THEN <<>> ELSE baseSlice(array, start, hasEnd, end)

\* The index at which the scan of baseWhile stops.
RECURSIVE whileIndex(_, _, _, _)
whileIndex(array, predicate, fromRight, index) ==
  IF fromRight
    THEN (IF index = 0 THEN -1
          ELSE IF callPredAt(predicate, array[index], index - 1)
                 THEN whileIndex(array, predicate, fromRight, index - 1)
                 ELSE index - 1)
    ELSE (IF index + 1 < Len(array)
               /\ callPredAt(predicate, array[index + 2], index + 1)
            THEN whileIndex(array, predicate, fromRight, index + 1)
            ELSE index + 1)

baseWhile(array, predicate, isDrop, fromRight) ==
  LET length == Len(array)
      sliced(index) ==
        IF isDrop
          THEN baseSlice(array, IF fromRight THEN 0 ELSE index, TRUE,
                         IF fromRight THEN index + 1 ELSE length)
          ELSE baseSlice(array, IF fromRight THEN index + 1 ELSE 0, TRUE,
                         IF fromRight THEN length ELSE index)
  IN sliced(whileIndex(array, predicate, fromRight,
                       IF fromRight THEN length ELSE -1))

dropWhile(array, p) ==
  IF Len(array) = 0 THEN <<>> ELSE baseWhile(array, p, TRUE, FALSE)
dropRightWhile(array, p) ==
  IF Len(array) = 0 THEN <<>> ELSE baseWhile(array, p, TRUE, TRUE)
takeWhile(array, p) ==
  IF Len(array) = 0 THEN <<>> ELSE baseWhile(array, p, FALSE, FALSE)
takeRightWhile(array, p) ==
  IF Len(array) = 0 THEN <<>> ELSE baseWhile(array, p, FALSE, TRUE)

arrayMap(array, iteratee) ==
  [i \in 1..Len(array) |-> callMapAt(iteratee, array[i], i - 1)]

\* The loop of arrayFilter from index on: predicate(value, index, array)
RECURSIVE arrayFilterFrom(_, _, _)
arrayFilterFrom(array, predicate, index) ==
  IF index >= Len(array) THEN <<>>
  ELSE (IF callPredAt(predicate, array[index + 1], index)
          THEN <<array[index + 1]>> ELSE <<>>)
       \o arrayFilterFrom(array, predicate, index + 1)

arrayFilter(array, predicate) == arrayFilterFrom(array, predicate, 0)

rest(array) == drop(array, 1)
initial(array) == dropRight(array, 1)
toArray(value) == value
compact(array) == arrayFilter(array, "identity")
reject(collection, predicate) == arrayFilter(collection, negate(predicate))
first(array) == IF Len(array) = 0 THEN Undef ELSE Num(array[1])
last(array) == IF Len(array) = 0 THEN Undef ELSE Num(array[Len(array)])

\* ------------------------------------------------ chain method arguments
\* One wrapper method call: m the method name, f the iteratee (or ""),
\* n the count / start / pushed element, end the optional slice end.
Op(m, f, n, hasEnd, end) ==
  [m |-> m, f |-> f, n |-> n, hasEnd |-> hasEnd, end |-> end]
OpM(m) == Op(m, "", 0, FALSE, 0)
OpF(m, f) == Op(m, f, 0, FALSE, 0)
OpN(m, n) == Op(m, "", n, FALSE, 0)

\* The methods whose first argument is an iteratee:
\* /^(?:filter|map|reject)|While$/
checkIteratee(m) ==
  m \in {"filter", "map", "reject", "dropWhile", "takeWhile",
         "dropRightWhile", "takeRightWhile"}

\* The eager lodash function of the same name applied to (value, args...):
\* what the interceptor of the lazy dispatch runs.  calls counts the
\* invocations of the caller's iteratee.
lodashFunc(op, v) ==
  LET a == IF isArray(v) THEN v.a ELSE <<>>
      m == op.m
      wi(fromRight) == whileIndex(a, op.f, fromRight,
                                  IF fromRight THEN Len(a) ELSE -1)
      fromRight == m \in {"dropRightWhile", "takeRightWhile"}
      countTo(index) ==
        IF fromRight THEN (IF index = -1 THEN Len(a) ELSE Len(a) - index)
        ELSE nativeMin(index + 1, Len(a))
      wcalls == IF Len(a) = 0 THEN 0 ELSE countTo(wi(fromRight))
      \* r is the result when no call of the iteratee throws; called are
      \* the elements the iteratee is called with, thrower those it
      \* throws on
      orThrown(r) ==
        LET called == IF ~checkIteratee(m) THEN {}
                      ELSE IF fromRight THEN (Len(a) - r.calls + 1)..Len(a)
                      ELSE 1..r.calls
            thrower == {i \in called : throws(op.f, a[i])}
            at == IF fromRight
                    THEN CHOOSE i \in thrower : \A j \in thrower : i >= j
                    ELSE CHOOSE i \in thrower : \A j \in thrower : i <= j
        IN IF thrower = {} THEN r
           ELSE [v |-> Thrown(a[at]),
                 calls |-> IF fromRight THEN Len(a) - at + 1 ELSE at]
  IN orThrown(
        [v |->
           CASE m = "filter" -> Arr(arrayFilter(a, op.f))
             [] m = "map" -> Arr(arrayMap(a, op.f))
             [] m = "take" -> Arr(take(a, op.n))
             [] m = "takeRight" -> Arr(takeRight(a, op.n))
             [] m = "drop" -> Arr(drop(a, op.n))
             [] m = "dropRight" -> Arr(dropRight(a, op.n))
             [] m = "dropWhile" -> Arr(dropWhile(a, op.f))
             [] m = "takeWhile" -> Arr(takeWhile(a, op.f))
             [] m = "dropRightWhile" -> Arr(dropRightWhile(a, op.f))
             [] m = "takeRightWhile" -> Arr(takeRightWhile(a, op.f))
             [] m = "slice" -> Arr(slice(a, op.n, op.hasEnd, op.end))
             [] m = "first" -> first(a)
             [] m = "last" -> last(a)
             [] m = "rest" -> Arr(rest(a))
             [] m = "initial" -> Arr(initial(a))
             [] m = "toArray" -> Arr(toArray(a))
             [] m = "compact" -> Arr(compact(a))
             [] m = "reject" -> Arr(reject(a, op.f))
             [] OTHER -> Err,
         calls |-> IF m \in {"filter", "map", "reject"} THEN Len(a)
                   ELSE IF checkIteratee(m) THEN wcalls ELSE 0])

\* ------------------------------------------------------------ the heap
\* What a __wrapped__ field holds: a raw value, a LazyWrapper (the record
\* itself: a LazyWrapper is never changed once a method has returned it) or
\* a LodashWrapper object (its index in the variable wrappers).
RawRef(v) == [k |-> "raw", id |-> 0, v |-> v]
LazyRef(l) == [k |-> "lazy", id |-> 0, v |-> l]
WrapRef(h) == [k |-> "lodash", id |-> h, v |-> Undef]

\* hasActions distinguishes __actions__ = null from an array.
LazyWrapper(value) ==
  [wrapped |-> value, actions |-> <<>>, hasActions |-> FALSE, dir |-> 1,
   filtered |-> FALSE, iteratees |-> <<>>, takeCount |-> POSITIVE_INFINITY,
   views |-> <<>>]

LodashWrapper(value, chainAll, actions) ==
  [wrapped |-> value, actions |-> actions, chain |-> chainAll]

\* One deferred action {func, args}: func is thru, tap or a lodash function
\* added by mixin; kind tells what the interceptor argument does.
Action(func, kind, op) == [func |-> func, kind |-> kind, op |-> op]

\* -------------------------------------------------------------- getView
\* getView whose take sets end = start + size without the minimum.
RECURSIVE getViewTakeUnbounded(_, _, _, _)
getViewTakeUnbounded(start, end, transforms, index) ==
  IF index > Len(transforms) THEN [start |-> start, end |-> end]
  ELSE LET data == transforms[index]
           size == data.size
       IN CASE data.type = "drop" ->
                 getViewTakeUnbounded(start + size, end, transforms, index + 1)
            [] data.type = "dropRight" ->
                 getViewTakeUnbounded(start, end - size, transforms, index + 1)
            [] data.type = "take" ->
                 getViewTakeUnbounded(start, start + size, transforms,
                                      index + 1)
            [] data.type = "takeRight" ->
                 getViewTakeUnbounded(nativeMax(start, end - size), end,
                                      transforms, index + 1)
            [] OTHER -> getViewTakeUnbounded(start, end, transforms, index + 1)

RECURSIVE getViewFrom(_, _, _, _)
getViewFrom(start, end, transforms, index) ==
  IF index > Len(transforms) THEN [start |-> start, end |-> end]
  ELSE LET data == transforms[index]
           size == data.size
       IN CASE data.type = "drop" ->
                 getViewFrom(start + size, end, transforms, index + 1)
            [] data.type = "dropRight" ->
                 getViewFrom(start, end - size, transforms, index + 1)
            [] data.type = "take" ->
                 getViewFrom(start, nativeMin(end, start + size), transforms,
                             index + 1)
            [] data.type = "takeRight" ->
                 getViewFrom(nativeMax(start, end - size), end, transforms,
                             index + 1)
            [] OTHER -> getViewFrom(start, end, transforms, index + 1)

getView(start, end, transforms) == getViewFrom(start, end, transforms, 1)

\* ------------------------------------------------------------ lazyValue
\* The inner loop of lazyValue over the iteratee entries for one element.
\* ents is the heap of entry objects {done, count, index, iteratee, limit,
\* type}; the result says how the outer loop goes on.
RECURSIVE iterateeLoop(_, _, _, _, _, _, _)
iterateeLoop(iteratees, iterIndex, value, index, isRight, ents, calls) ==
  IF iterIndex > Len(iteratees)
    THEN [go |-> "emit", value |-> value, ents |-> ents, calls |-> calls]
  ELSE
    LET id == iteratees[iterIndex]
        data == ents[id]
    IN IF data.type = LAZY_DROP_WHILE_FLAG
         THEN
           LET stale == data.done /\ (IF isRight THEN index > data.index
                                                 ELSE index < data.index)
               d1 == IF stale THEN [data EXCEPT !.count = 0, !.done = FALSE]
                              ELSE data
               d2 == [d1 EXCEPT !.index = index]
               limit == d2.limit
               done == IF limit > -1 THEN d2.count >= limit
                                     ELSE ~callPred(d2.iteratee, value)
               d3 == [d2 EXCEPT !.done = done,
                                !.count = IF limit > -1 THEN @ + 1 ELSE @]
               c3 == IF limit > -1 THEN calls ELSE calls + 1
           IN IF d2.done
                THEN iterateeLoop(iteratees, iterIndex + 1, value, index,
                                  isRight, [ents EXCEPT ![id] = d2], calls)
                ELSE IF limit = -1 /\ throws(d2.iteratee, value)
                  THEN [go |-> "throw", value |-> value,
                        ents |-> [ents EXCEPT ![id] = d2], calls |-> c3]
                ELSE IF ~done
                  THEN [go |-> "continue", value |-> value,
                        ents |-> [ents EXCEPT ![id] = d3], calls |-> c3]
                  ELSE iterateeLoop(iteratees, iterIndex + 1, value, index,
                                    isRight, [ents EXCEPT ![id] = d3], c3)
         ELSE IF throws(data.iteratee, value)
           THEN [go |-> "throw", value |-> value, ents |-> ents,
                 calls |-> calls + 1]
         ELSE IF data.type = LAZY_MAP_FLAG
           THEN iterateeLoop(iteratees, iterIndex + 1,
                             callMap(data.iteratee, value), index, isRight,
                             ents, calls + 1)
           ELSE IF callPred(data.iteratee, value)
             THEN iterateeLoop(iteratees, iterIndex + 1, value, index,
                               isRight, ents, calls + 1)
             ELSE [go |-> IF data.type = LAZY_FILTER_FLAG THEN "continue"
                                                          ELSE "break",
                   value |-> value, ents |-> ents, calls |-> calls + 1]

\* The outer loop condition without the takeCount test.
outerCondNoTakeCount(length, resIndex, takeCount) ==
  length > 0

\* The outer loop condition off by one: resIndex <= takeCount.
outerCondInclusive(length, resIndex, takeCount) ==
  length # 0 /\ resIndex <= takeCount

\* The condition of the outer loop: length-- && resIndex < takeCount.
outerCond(length, resIndex, takeCount) ==
  length # 0 /\ resIndex < takeCount

RECURSIVE outerLoopCatching(_, _, _, _, _, _, _, _)
\* The outer loop with the iteratee call guarded: an exception skips the
\* element.
outerLoopCatching(array, this, takeCount, length, index, result, ents, calls) ==
  IF outerCond(length, Len(result), takeCount)
    THEN LET index1 == index + this.dir
             ran(p) == [p EXCEPT !.iters = @ + 1]
             after(r) ==
               CASE r.go = "emit" ->
                      ran(outerLoopCatching(array, this, takeCount, length - 1,
                                            index1, Append(result, r.value),
                                            r.ents, r.calls))
                 [] r.go \in {"continue", "throw"} ->
                      ran(outerLoopCatching(array, this, takeCount, length - 1,
                                            index1, result, r.ents, r.calls))
                 [] OTHER -> [result |-> result, ents |-> r.ents,
                              calls |-> r.calls, thrown |-> <<>>,
                              iters |-> 1]
         IN after(iterateeLoop(this.iteratees, 1, array[index1 + 1], index1,
                               this.dir < 0, ents, calls))
    ELSE [result |-> result, ents |-> ents, calls |-> calls,
          thrown |-> <<>>, iters |-> 0]

\* The outer loop going on to the next element where a takeWhile
\* predicate fails (continue outer in place of break outer).
RECURSIVE outerLoopNoBreak(_, _, _, _, _, _, _, _)
outerLoopNoBreak(array, this, takeCount, length, index, result, ents, calls) ==
  IF outerCond(length, Len(result), takeCount)
    THEN LET index1 == index + this.dir
             ran(p) == [p EXCEPT !.iters = @ + 1]
             after(r) ==
               CASE r.go = "emit" ->
                      ran(outerLoopNoBreak(array, this, takeCount, length - 1,
                                           index1, Append(result, r.value),
                                           r.ents, r.calls))
                 [] r.go = "throw" ->
                      [result |-> <<>>, ents |-> r.ents, calls |-> r.calls,
                       thrown |-> <<Thrown(r.value)>>, iters |-> 1]
                 [] OTHER ->
                      ran(outerLoopNoBreak(array, this, takeCount, length - 1,
                                           index1, result, r.ents, r.calls))
         IN after(iterateeLoop(this.iteratees, 1, array[index1 + 1], index1,
                               this.dir < 0, ents, calls))
    ELSE [result |-> result, ents |-> ents, calls |-> calls,
          thrown |-> <<>>, iters |-> 0]

\* The outer loop of lazyValue; thrown holds the exception that ended it,
\* iters the number of times the body of the loop ran.
RECURSIVE outerLoop(_, _, _, _, _, _, _, _)
outerLoop(array, this, takeCount, length, index, result, ents, calls) ==
  IF outerCond(length, Len(result), takeCount)
    THEN LET index1 == index + this.dir
             \* the body of the loop ran once more
             ran(p) == [p EXCEPT !.iters = @ + 1]
             after(r) ==
               CASE r.go = "emit" ->
                      ran(outerLoop(array, this, takeCount, length - 1, index1,
                                    Append(result, r.value), r.ents, r.calls))
                 [] r.go = "continue" ->
                      ran(outerLoop(array, this, takeCount, length - 1, index1,
                                    result, r.ents, r.calls))
                 [] r.go = "throw" ->
                      [result |-> <<>>, ents |-> r.ents, calls |-> r.calls,
                       thrown |-> <<Thrown(r.value)>>, iters |-> 1]
                 [] OTHER -> [result |-> result, ents |-> r.ents,
                              calls |-> r.calls, thrown |-> <<>>,
                              iters |-> 1]
         IN after(iterateeLoop(this.iteratees, 1, array[index1 + 1], index1,
                               this.dir < 0, ents, calls))
    ELSE [result |-> result, ents |-> ents, calls |-> calls,
          thrown |-> <<>>, iters |-> 0]

\* The lazy pass that runs over the whole array, whatever the views.
lazyPassWholeArray(array, this, ents, calls) ==
  LET pass(view) ==
        LET start == view.start
            end == view.end
            length == end - start
            index == IF this.dir < 0 THEN end ELSE start - 1
            takeCount == nativeMin(length, this.takeCount)
        IN outerLoop(array, this, takeCount, length, index, <<>>, ents, calls)
  IN pass(getView(0, Len(array), <<>>))

\* The lazy pass of lazyValue over an array.
lazyPass(array, this, ents, calls) ==
  LET pass(view) ==
        LET start == view.start
            end == view.end
            length == end - start
            index == IF this.dir < 0 THEN end ELSE start - 1
            takeCount == nativeMin(length, this.takeCount)
        IN outerLoop(array, this, takeCount, length, index, <<>>, ents, calls)
  IN pass(getView(0, Len(array), this.views))

\* ------------------------------------------------- deferred actions
\* The evaluation state threaded through one call: the entry objects, the
\* referenced arrays and the number of iteratee invocations so far.
elems(v, s) == IF v.ref > 0 THEN s.arrs[v.ref] ELSE v.a

\* arrayReduce with the caller's iteratee (sum, n) => sum + n and no
\* accumulator: the sum of the elements from index on.
RECURSIVE sumFrom(_, _)
sumFrom(array, index) ==
  IF index > Len(array) THEN 0 ELSE array[index] + sumFrom(array, index + 1)

\* action.func.apply(action.thisArg, [result].concat(action.args))
applyAction(action, v, s) ==
  LET a == IF isArray(v) THEN elems(v, s) ELSE <<>>
      k == action.kind
      setArr(new) == IF v.ref > 0
                       THEN [v |-> v, s |-> [s EXCEPT !.arrs[v.ref] = new]]
                       ELSE [v |-> Arr(new), s |-> s]
  IN CASE k = "lodashFunc" ->
            LET r == lodashFunc(action.op, IF isArray(v) THEN Arr(a) ELSE v)
            IN [v |-> r.v, s |-> [s EXCEPT !.calls = @ + r.calls]]
       [] k = "reverse" ->
            IF isArray(v) THEN setArr(nativeReverseSeq(a))
            ELSE [v |-> Err, s |-> s]
       [] k = "push" ->
            IF isArray(v) THEN setArr(Append(a, action.op.n))
            ELSE IF v.t = "undef" THEN [v |-> Err, s |-> s]
            ELSE [v |-> v, s |-> s]
       [] k = "pop" ->
            IF isArray(v)
              THEN [v |-> last(a),
                    s |-> IF Len(a) = 0 THEN s
                          ELSE setArr(SubSeq(a, 1, Len(a) - 1)).s]
            ELSE IF v.t = "undef" THEN [v |-> Err, s |-> s]
            ELSE [v |-> Undef, s |-> s]
       [] k = "noop" -> [v |-> v, s |-> s]
       [] k = "some" ->
            LET hit == {i \in 1..Len(a) : callPred(action.op.f, a[i])
                                            \/ throws(action.op.f, a[i])}
                n == IF hit = {} THEN Len(a)
                     ELSE CHOOSE i \in hit : \A j \in hit : i <= j
            IN [v |-> IF hit # {} /\ throws(action.op.f, a[n])
                        THEN Thrown(a[n]) ELSE Bool(hit # {}),
                s |-> [s EXCEPT !.calls = @ + n]]
       [] k = "find" ->
            LET hit == {i \in 1..Len(a) : callPred(action.op.f, a[i])
                                            \/ throws(action.op.f, a[i])}
                n == IF hit = {} THEN Len(a)
                     ELSE CHOOSE i \in hit : \A j \in hit : i <= j
            IN [v |-> IF hit = {} THEN Undef
                      ELSE IF throws(action.op.f, a[n]) THEN Thrown(a[n])
                      ELSE Num(a[n]),
                s |-> [s EXCEPT !.calls = @ + n]]
       [] k = "reduce" ->
            [v |-> IF Len(a) = 0 THEN Undef ELSE Num(sumFrom(a, 1)),
             s |-> [s EXCEPT !.calls = @ + nativeMax(Len(a) - 1, 0)]]
       [] OTHER -> [v |-> Err, s |-> s]

\* The action loop taking the actions from the last one to the first.
RECURSIVE runActionsBackward(_, _, _, _)
runActionsBackward(actions, index, v, s) ==
  IF index > Len(actions) \/ v.t = "err" THEN [v |-> v, s |-> s]
  ELSE LET next(r) == runActionsBackward(actions, index + 1, r.v, r.s)
       IN next(applyAction(actions[Len(actions) + 1 - index], v, s))

\* The while loop of baseWrapperValue; a thrown error ends it.
RECURSIVE runActions(_, _, _, _)
runActions(actions, index, v, s) ==
  IF index > Len(actions) \/ v.t = "err" THEN [v |-> v, s |-> s]
  ELSE LET next(r) == runActions(actions, index + 1, r.v, r.s)
       IN next(applyAction(actions[index], v, s))

\* ---------------------------------------------- value() of both wrappers
RECURSIVE lazyValue(_, _, _)
RECURSIVE wrapperValue(_, _, _)

baseWrapperValue(ws, value, actions, s) ==
  LET run(r0) == runActions(actions, 1, r0.v, r0.s)
  IN run(IF value.k = "lazy" THEN lazyValue(ws, value.v, s)
         ELSE [v |-> value.v, s |-> s])

wrapperValue(ws, this, s) ==
  baseWrapperValue(ws, this.wrapped, this.actions, s)

lazyValue(ws, this, s) ==
  LET w == this.wrapped
      \* r0 is this.__wrapped__.value()
      on(r0) ==
        IF r0.v.t = "err" THEN r0
        ELSE IF ~isArray(r0.v)
          THEN (IF this.hasActions
                  THEN runActions(this.actions, 1, r0.v, r0.s)
                  ELSE [v |-> Err, s |-> r0.s])
        ELSE LET done(p) ==
                   [v |-> IF p.thrown # <<>> THEN p.thrown[1]
                          ELSE Arr(p.result),
                    s |-> [r0.s EXCEPT !.ents = p.ents, !.calls = p.calls]]
             IN done(lazyPass(elems(r0.v, r0.s), this, r0.s.ents,
                              r0.s.calls))
  IN on(IF w.k = "lazy" THEN lazyValue(ws, w.v, s)
        ELSE wrapperValue(ws, ws[w.id], s))

\* ------------------------------------------------ LazyWrapper methods
lazyClone(this) ==
  [LazyWrapper(this.wrapped) EXCEPT
     !.actions = this.actions, !.hasActions = this.hasActions,
     !.dir = this.dir, !.filtered = this.filtered,
     !.iteratees = this.iteratees, !.takeCount = this.takeCount,
     !.views = this.views]

\* lazyReverse setting the direction to -1 instead of negating it.
lazyReverseFixedDir(this) ==
  IF this.filtered
    THEN [LazyWrapper(LazyRef(this)) EXCEPT !.dir = -1, !.filtered = TRUE]
    ELSE [lazyClone(this) EXCEPT !.dir = -1]

\* LazyWrapper.prototype.reverse
lazyReverse(this) ==
  IF this.filtered
    THEN [LazyWrapper(LazyRef(this)) EXCEPT !.dir = -1, !.filtered = TRUE]
    ELSE [lazyClone(this) EXCEPT !.dir = @ * (-1)]

baseCallback(func) == IF func = "" THEN "identity" ELSE func

\* LazyWrapper.prototype.dropWhile / filter / map / takeWhile; the result
\* is the new wrapper and the entry heap with the new entry.
lazyIteratee(this, ents, type, iteratee) ==
  LET filtered == this.filtered
      isFilter == type # LAZY_MAP_FLAG
      isDropWhile == type = LAZY_DROP_WHILE_FLAG
      result == IF filtered /\ isDropWhile THEN LazyWrapper(LazyRef(this))
                ELSE lazyClone(this)
      entry == [done |-> FALSE, count |-> 0, index |-> 0,
                iteratee |-> baseCallback(iteratee), limit |-> -1,
                type |-> type]
  IN [lazy |-> [result EXCEPT !.iteratees = Append(@, Len(ents) + 1),
                              !.filtered = filtered \/ isFilter],
      ents |-> Append(ents, entry)]

\* drop / take that sets the limit on the receiver's last entry.
lazyDropTakeInPlace(this, ents, methodName, n0) ==
  LET filtered == this.filtered
      index == IF methodName = "take" THEN 1 ELSE 0
      n == nativeMax(n0, 0)
      \* r is (filtered && !index) ? this.dropWhile() : this.clone()
      with(r) ==
        LET result == r.lazy
        IN IF filtered
             THEN IF index = 1
                    THEN [lazy |-> [result EXCEPT
                                      !.takeCount = nativeMin(@, n)],
                          ents |-> r.ents]
                    ELSE [lazy |-> result,
                          ents |-> [r.ents EXCEPT
                                      ![IF Len(this.iteratees) > 0
                                          THEN this.iteratees[Len(this.iteratees)]
                                          ELSE result.iteratees[Len(result.iteratees)]]
                                         .limit = n]]
             ELSE [lazy |-> [result EXCEPT !.views =
                               Append(@, [size |-> n,
                                          type |-> IF result.dir < 0
                                                     THEN (IF index = 1
                                                             THEN "takeRight"
                                                             ELSE "dropRight")
                                                     ELSE methodName])],
                   ents |-> r.ents]
  IN with(IF filtered /\ index = 0
            THEN lazyIteratee(this, ents, LAZY_DROP_WHILE_FLAG, "")
            ELSE [lazy |-> lazyClone(this), ents |-> ents])

\* LazyWrapper.prototype.drop / take
lazyDropTake(this, ents, methodName, n0) ==
  LET filtered == this.filtered
      index == IF methodName = "take" THEN 1 ELSE 0
      n == nativeMax(n0, 0)
      \* r is (filtered && !index) ? this.dropWhile() : this.clone()
      with(r) ==
        LET result == r.lazy
        IN IF filtered
             THEN IF index = 1
                    THEN [lazy |-> [result EXCEPT
                                      !.takeCount = nativeMin(@, n)],
                          ents |-> r.ents]
                    ELSE [lazy |-> result,
                          ents |-> [r.ents EXCEPT
                                      ![result.iteratees[Len(result.iteratees)]]
                                         .limit = n]]
             ELSE [lazy |-> [result EXCEPT !.views =
                               Append(@, [size |-> n,
                                          type |-> IF result.dir < 0
                                                     THEN (IF index = 1
                                                             THEN "takeRight"
                                                             ELSE "dropRight")
                                                     ELSE methodName])],
                   ents |-> r.ents]
  IN with(IF filtered /\ index = 0
            THEN lazyIteratee(this, ents, LAZY_DROP_WHILE_FLAG, "")
            ELSE [lazy |-> lazyClone(this), ents |-> ents])

\* drop/take + 'Right' and + 'RightWhile'
lazyDropTakeRight(this, ents, methodName, n) ==
  LET back(r) == [lazy |-> lazyReverse(r.lazy), ents |-> r.ents]
  IN back(lazyDropTake(lazyReverse(this), ents, methodName, n))

\* dropRightWhile / takeRightWhile without the closing reverse().
lazyRightWhileOpen(this, ents, type, predicate) ==
  LET back(r) == [lazy |-> r.lazy, ents |-> r.ents]
  IN back(lazyIteratee(lazyReverse(this), ents, type, predicate))

\* LazyWrapper.prototype.dropRightWhile / takeRightWhile:
\* this.reverse()[methodName](predicate, thisArg).reverse()
lazyRightWhile(this, ents, type, predicate) ==
  LET back(r) == [lazy |-> lazyReverse(r.lazy), ents |-> r.ents]
  IN back(lazyIteratee(lazyReverse(this), ents, type, predicate))

\* LazyWrapper.prototype.slice
lazySlice(this, ents, start, hasEnd, end) ==
  LET toEnd(r) ==
        IF hasEnd
          THEN (IF end < 0
                  THEN lazyDropTakeRight(r.lazy, r.ents, "drop", -end)
                  ELSE lazyDropTake(r.lazy, r.ents, "take", end - start))
          ELSE r
  IN toEnd(IF start < 0 THEN lazyDropTakeRight(this, ents, "take", -start)
           ELSE lazyDropTake(this, ents, "drop", start))

\* The chainable LazyWrapper.prototype methods, by name.
lazyFunc(this, ents, op) ==
  LET m == op.m
  IN CASE m = "dropWhile" -> lazyIteratee(this, ents, LAZY_DROP_WHILE_FLAG, op.f)
       [] m = "filter" -> lazyIteratee(this, ents, LAZY_FILTER_FLAG, op.f)
       [] m = "map" -> lazyIteratee(this, ents, LAZY_MAP_FLAG, op.f)
       [] m = "takeWhile" -> lazyIteratee(this, ents, LAZY_TAKE_WHILE_FLAG, op.f)
       [] m = "drop" -> lazyDropTake(this, ents, "drop", op.n)
       [] m = "take" -> lazyDropTake(this, ents, "take", op.n)
       [] m = "dropRight" -> lazyDropTakeRight(this, ents, "drop", op.n)
       [] m = "takeRight" -> lazyDropTakeRight(this, ents, "take", op.n)
       [] m = "dropRightWhile" ->
            lazyRightWhile(this, ents, LAZY_DROP_WHILE_FLAG, op.f)
       [] m = "takeRightWhile" ->
            lazyRightWhile(this, ents, LAZY_TAKE_WHILE_FLAG, op.f)
       [] m = "slice" -> lazySlice(this, ents, op.n, op.hasEnd, op.end)
       [] m = "first" -> lazyDropTake(this, ents, "take", 1)
       [] m = "last" -> lazyDropTakeRight(this, ents, "take", 1)
       [] m = "initial" -> lazyDropTakeRight(this, ents, "drop", 1)
       [] m = "rest" -> lazyDropTake(this, ents, "drop", 1)
       [] m = "compact" ->
            lazyIteratee(this, ents, LAZY_FILTER_FLAG, "identity")
       [] m = "reject" ->
            lazyIteratee(this, ents, LAZY_FILTER_FLAG,
                         negate(baseCallback(op.f)))
       [] m = "toArray" -> lazyDropTake(this, ents, "drop", 0)
       [] OTHER -> [lazy |-> lazyClone(this), ents |-> ents]

\* value()[0] of LazyWrapper.prototype.first / last
index0(v, s) ==
  IF isArray(v) THEN first(elems(v, s))
  ELSE IF v.t = "err" THEN v
  ELSE IF v.t = "undef" THEN Err
  ELSE Undef

\* ------------------------------------------------------------- state
VARIABLES
  arrays,    \* the arrays objects refer to; arrays[1] is the caller's source
  wrappers,  \* the LodashWrapper objects created so far
  ents,      \* the iteratee entry objects created so far
  made,      \* for each wrapper: the receiver and the call that created it
  chained,   \* the wrappers that chain() was called on, and their descendants
  out,       \* the last call: receiver, method, what it returned
  prev,      \* the call before it
  ncalls,    \* number of chain calls made
  nvalues,   \* number of value() calls made
  nevals,    \* number of calls that evaluated a wrapper
  closure,   \* the variables a created function (matches, before, debounced)
             \* closes over
  now,       \* the clock, in milliseconds
  timers,    \* the host's timers: the next id and the pending timeouts
  invoked    \* the calls of the created function and of func made so far

vars ==
  <<arrays, wrappers, ents, made, chained, out, prev, ncalls, nvalues, nevals,
    closure, now, timers, invoked>>

\* The variables of the chain and those of a created function.
chainVars ==
  <<arrays, wrappers, ents, made, chained, out, prev, ncalls, nvalues, nevals>>
funcVars == <<closure, now, timers, invoked>>

\* No timeout is pending; ids start at 1.
NoTimers == [next |-> 1, pending |-> {}]

\* No function has been created.
NoFunction ==
  /\ closure = [kind |-> "none"]
  /\ now = 0
  /\ timers = NoTimers
  /\ invoked = <<>>

Arrays0 == UNION {[1..n -> 1..MaxVal] : n \in 0..MaxLen}

NoCall == [m |-> "init", op |-> OpM("init"), h |-> 0, chainAll |-> FALSE,
           ret |-> "wrapper", rh |-> 1, v |-> Undef, calls |-> 0,
           evaluated |-> FALSE, src |-> <<>>]

\* The caller wraps a source array: _(A), A one of sources.
InitOn(sources) ==
  /\ arrays \in {<<a>> : a \in sources}
  /\ wrappers = <<LodashWrapper(RawRef(ArrRef(1)), FALSE, <<>>)>>
  /\ ents = <<>>
  /\ made = <<[h |-> 0, op |-> OpM("init")]>>
  /\ chained = {}
  /\ out = NoCall
  /\ prev = NoCall
  /\ ncalls = 0
  /\ nvalues = 0
  /\ nevals = 0
  /\ NoFunction

Init == InitOn(Arrays0)

State0 == [ents |-> ents, arrs |-> arrays, calls |-> 0]

Called(h, op, ret, rh, v, s, evaluated) ==
  /\ UNCHANGED funcVars
  /\ ents' = s.ents
  /\ arrays' = s.arrs
  /\ prev' = out
  /\ nevals' = IF evaluated THEN nevals + 1 ELSE nevals
  /\ out' = [m |-> op.m, op |-> op, h |-> h, chainAll |-> wrappers[h].chain,
             ret |-> ret, rh |-> rh, v |-> v, calls |-> s.calls,
             evaluated |-> evaluated, src |-> arrays[1]]

\* A call that returned the new wrapper w, after allocating the wrappers ws.
ReturnWrappers(h, op, ws, s, evaluated) ==
  /\ wrappers' = wrappers \o ws
  /\ made' = made \o [i \in 1..Len(ws) |-> [h |-> h, op |-> op]]
  /\ chained' = IF h \in chained
                  THEN chained \cup {Len(wrappers) + Len(ws)}
                  ELSE chained
  /\ Called(h, op, "wrapper", Len(wrappers) + Len(ws), Undef, s, evaluated)

ReturnWrapper(h, op, w, s, evaluated) ==
  ReturnWrappers(h, op, <<w>>, s, evaluated)

\* A call that returned the unwrapped value v, or threw (v is Err).
ReturnValue(h, op, v, s) ==
  /\ UNCHANGED <<wrappers, made, chained>>
  /\ Called(h, op, IF v.t = "err" THEN "throw" ELSE "value", 0,
            IF isArray(v) THEN Arr(elems(v, s)) ELSE v, s, TRUE)

\* The raw value a new wrapper keeps: an array made during the evaluation
\* becomes an object the wrapper refers to.
keep(v, s) ==
  IF isArray(v) /\ v.ref = 0
    THEN [v |-> ArrRef(Len(s.arrs) + 1),
          s |-> [s EXCEPT !.arrs = Append(@, v.a)]]
    ELSE [v |-> v, s |-> s]

\* ------------------------------------------------------ wrapper methods
\* The mixin test with the chain option alone: if (chain).
mixinWrapsOptionOnly(chain, chainAll) == chain

\* The test of the prototype method mixin adds: if (chain || chainAll).
mixinWraps(chain, chainAll) == chain \/ chainAll

\* The prototype method mixin adds for a lodash function; chain is the
\* option it was mixed in with, action what the deferred call does.
mixinCall(h, op, chain, action) ==
  LET this == wrappers[h]
      chainAll == this.chain
  IN IF mixinWraps(chain, chainAll)
       THEN ReturnWrapper(h, op,
              LodashWrapper(this.wrapped, chainAll,
                            Append(this.actions, action)),
              State0, FALSE)
       ELSE LET apply(r) == IF r.v.t = "err" THEN r
                            ELSE applyAction(action, r.v, r.s)
                return(r1) == ReturnValue(h, op, r1.v, r1.s)
            IN return(apply(wrapperValue(wrappers, this, State0)))

\* lodash.prototype.thru / tap, both mixed in chainable
thruCall(h, op, kind) == mixinCall(h, op, TRUE, Action("thru", kind, op))
tapCall(h, op, kind) == mixinCall(h, op, TRUE, Action("tap", kind, op))

LazyMethods == {"dropWhile", "filter", "map", "takeWhile", "drop", "take",
                "dropRight", "takeRight", "dropRightWhile", "takeRightWhile",
                "first", "last", "slice", "initial", "rest", "compact",
                "reject", "toArray"}
retUnwrappedLazy(m) == m \in {"first", "last"}

\* Whether the first/last call hands back the bare element.
lazyUnwraps(retUnwrapped, chainAll) == retUnwrapped /\ ~chainAll

\* useLazy taken for every wrapped value.
canUseLazyAnyValue(value) == TRUE

\* useLazy = isLazy || isArray(value)
canUseLazy(value) ==
  value.k = "lazy" \/ (value.k = "raw" /\ isArray(value.v))

\* lodash.prototype[methodName] for the methods LazyWrapper.prototype has
LazyMethod(h, op) ==
  LET this == wrappers[h]
      chainAll == this.chain
      value == this.wrapped
      isHybrid == Len(this.actions) > 0
      isLazy0 == value.k = "lazy"
      useLazy0 == canUseLazy(value)
      avoid == useLazy0 /\ checkIteratee(op.m) /\ op.f # ""
               /\ fnLength(op.f) # 1
      isLazy == isLazy0 /\ ~avoid
      useLazy == useLazy0 /\ ~avoid
      onlyLazy == isLazy /\ ~isHybrid
      retUnwrapped == retUnwrappedLazy(op.m)
      wrapper == IF onlyLazy THEN value.v ELSE LazyWrapper(WrapRef(h))
      \* lodashFunc.call(lodash, this.value())
      apply(r) == IF r.v.t = "err" THEN r
                  ELSE applyAction(Action("", "lodashFunc", op), r.v, r.s)
      return(r1) == ReturnValue(h, op, r1.v, r1.s)
      \* fv is func.apply(wrapper) of first / last, before the [0]
      returnElement(fv) == ReturnValue(h, op, index0(fv.v, fv.s), fv.s)
      wrapElement(fv, e) ==
        IF e.t = "err"
          THEN ReturnValue(h, op, e, fv.s)
          ELSE ReturnWrapper(h, op, LodashWrapper(RawRef(e), chainAll, <<>>),
                             fv.s, TRUE)
      wrapFirst(fv) == wrapElement(fv, index0(fv.v, fv.s))
      \* f is the LazyWrapper func.apply(wrapper, args) built
      withActions(lazy) ==
        IF isHybrid \/ lazy.hasActions
          THEN [lazy EXCEPT
                  !.hasActions = TRUE,
                  !.actions = Append(@, Action("thru", "lodashFunc", op))]
          ELSE lazy
      taken(f) == lazyValue(wrappers, f.lazy, [State0 EXCEPT !.ents = f.ents])
      lazyCall(f) ==
        IF lazyUnwraps(retUnwrapped, chainAll)
          THEN returnElement(taken(f))
          ELSE IF retUnwrapped
            THEN wrapFirst(taken(f))
            ELSE ReturnWrapper(h, op,
                   LodashWrapper(LazyRef(withActions(f.lazy)), chainAll, <<>>),
                   [State0 EXCEPT !.ents = f.ents], FALSE)
  IN /\ ncalls' = ncalls + 1
     /\ UNCHANGED nvalues
     /\ IF lazyUnwraps(retUnwrapped, chainAll) /\ ~onlyLazy
          THEN return(apply(wrapperValue(wrappers, this, State0)))
          ELSE IF useLazy
            THEN lazyCall(lazyFunc(wrapper, ents, op))
            ELSE thruCall(h, op, "lodashFunc")

\* wrapperReverse that does not pass this.__chain__ on.
wrapperReverseUnchained(this, h) ==
  LET lazy == IF Len(this.actions) > 0 THEN LazyWrapper(WrapRef(h))
              ELSE this.wrapped.v
  IN LodashWrapper(LazyRef(lazyReverse(lazy)), FALSE, <<>>)

\* wrapperReverse when __wrapped__ is a LazyWrapper: the wrapper returned
\* for receiver this, the object at index h.
wrapperReverse(this, h) ==
  LET lazy == IF Len(this.actions) > 0 THEN LazyWrapper(WrapRef(h))
              ELSE this.wrapped.v
  IN LodashWrapper(LazyRef(lazyReverse(lazy)), this.chain, <<>>)

\* lodash.prototype.reverse
Reverse(h) ==
  LET this == wrappers[h]
      op == OpM("reverse")
  IN /\ ncalls' = ncalls + 1
     /\ UNCHANGED nvalues
     /\ IF this.wrapped.k = "lazy"
          THEN ReturnWrapper(h, op, wrapperReverse(this, h), State0, FALSE)
          ELSE thruCall(h, op, "reverse")

\* lodash.prototype.chain: chain(this) returns the receiver itself
Chain(h) ==
  /\ ncalls' = ncalls + 1
  /\ UNCHANGED <<nvalues, made>>
  /\ wrappers' = [wrappers EXCEPT ![h].chain = TRUE]
  /\ chained' = chained \cup {h}
  /\ Called(h, OpM("chain"), "wrapper", h, Undef, State0, FALSE)

\* lodash.prototype.commit
Commit(h) ==
  LET this == wrappers[h]
      wrap(k) == ReturnWrapper(h, OpM("commit"),
                   LodashWrapper(RawRef(k.v), this.chain, <<>>), k.s, TRUE)
      \* r is this.value()
      return(r) == IF r.v.t = "err"
                     THEN ReturnValue(h, OpM("commit"), r.v, r.s)
                     ELSE wrap(keep(r.v, r.s))
  IN /\ ncalls' = ncalls + 1
     /\ UNCHANGED nvalues
     /\ return(wrapperValue(wrappers, this, State0))

\* wrapperPlant: clone every wrapper down the __wrapped__ chain and put
\* value at its end.  The result is the reference to the clone of ref and
\* the LodashWrapper objects allocated (ws), the outermost last.
RECURSIVE plantInto(_, _, _, _)
plantInto(ref, value, heap, ws) ==
  IF ref.k = "raw" THEN [ref |-> value, ws |-> ws]
  ELSE IF ref.k = "lazy"
    THEN LET inner == plantInto(ref.v.wrapped, value, heap, ws)
         IN [ref |-> LazyRef([lazyClone(ref.v) EXCEPT
                                !.wrapped = inner.ref]),
             ws |-> inner.ws]
    ELSE LET w == heap[ref.id]
             inner == plantInto(w.wrapped, value, heap, ws)
         IN [ref |-> WrapRef(Len(heap) + Len(inner.ws) + 1),
             ws |-> Append(inner.ws,
                           LodashWrapper(inner.ref, w.chain, w.actions))]

Plant(h, a) ==
  LET p == plantInto(WrapRef(h), RawRef(ArrRef(Len(arrays) + 1)), wrappers,
                     <<>>)
  IN /\ ncalls' = ncalls + 1
     /\ UNCHANGED nvalues
     /\ ReturnWrappers(h, OpN("plant", Len(arrays) + 1), p.ws,
                       [State0 EXCEPT !.arrs = Append(@, a)], FALSE)

\* lodash.prototype.push (through tap) and pop (unwrapped, or through thru)
ArrayMethod(h, op) ==
  LET this == wrappers[h]
      retUnwrapped == op.m = "pop"
      \* func.apply(this.value(), args)
      apply(r) == IF r.v.t = "err" THEN r
                  ELSE applyAction(Action("", op.m, op), r.v, r.s)
      return(r1) == ReturnValue(h, op, r1.v, r1.s)
  IN /\ ncalls' = ncalls + 1
     /\ UNCHANGED nvalues
     /\ IF retUnwrapped /\ ~this.chain
          THEN return(apply(wrapperValue(wrappers, this, State0)))
          ELSE IF op.m = "push" THEN tapCall(h, op, op.m)
               ELSE thruCall(h, op, op.m)

\* The methods mixin added with chain = false (some, find, reduce) and the
\* chainable tap with the caller's interceptor.
MixinMethod(h, op) ==
  /\ ncalls' = ncalls + 1
  /\ UNCHANGED nvalues
  /\ IF op.m = "tap" THEN tapCall(h, op, "noop")
     ELSE mixinCall(h, op, FALSE, Action(op.m, op.m, op))

\* lodash.prototype.value
Value(h) ==
  LET return(r) == ReturnValue(h, OpM("value"), r.v, r.s)
  IN /\ nvalues' = nvalues + 1
     /\ UNCHANGED ncalls
     /\ return(wrapperValue(wrappers, wrappers[h], State0))

\* ------------------------------------------------------ specifications
\* The wrapper the last chain call returned (the newest one).
Latest == Len(wrappers)

\* Spec: one chain built call by call on a wrapped array through the
\* fusable methods and reverse, with value() called on it at any point.
MaxN == 1
Ops ==
  {OpF("filter", "odd"), OpF("map", "inc"), OpF("dropWhile", "odd"),
   OpF("takeWhile", "gt1"), OpN("drop", 1)}
  \cup {OpN("take", n) : n \in 0..MaxN}

Next ==
  \/ ncalls < MaxCalls /\ \E op \in Ops : LazyMethod(Latest, op)
  \/ ncalls < MaxCalls /\ Reverse(Latest)
  \/ nvalues < MaxValues /\ Value(Latest)

Spec == Init /\ [][Next]_vars

TypeOK ==
  /\ ncalls \in Nat
  /\ nvalues \in 0..MaxValues
  /\ nevals <= ncalls + nvalues
  /\ Len(made) = Len(wrappers)
  /\ chained \subseteq 1..Len(wrappers)

\* SpecSib: several chains branching from the wrappers made so far, value()
\* called on any of them.
SibCalls == 4
SibOps == {OpF("filter", "odd"), OpN("drop", 1)}

NextSib ==
  \/ ncalls < SibCalls
       /\ \E h \in 1..Len(wrappers) : \E op \in SibOps : LazyMethod(h, op)
  \/ nvalues < MaxValues /\ \E h \in 1..Len(wrappers) : Value(h)

SpecSib == Init /\ [][NextSib]_vars

\* SpecSlice: one slice(start, end) call on the wrapped array, then value().
MaxIdx == 2
SliceOps ==
  {Op("slice", "", st, FALSE, 0) : st \in -MaxIdx..MaxIdx}
  \cup {Op("slice", "", st, TRUE, en) :
          st \in -MaxIdx..MaxIdx, en \in -MaxIdx..MaxIdx}

NextSlice ==
  \/ ncalls < 1 /\ \E op \in SliceOps : LazyMethod(Latest, op)
  \/ nvalues < 1 /\ Value(Latest)

SpecSlice == Init /\ [][NextSlice]_vars

\* SpecTake: one chain of filter, drop, take and reverse, with value()
\* called on it at any point.
TakeOps ==
  {OpF("filter", "odd"), OpN("drop", 1)}
  \cup {OpN("take", n) : n \in 0..MaxN}

NextTake ==
  \/ ncalls < MaxCalls /\ \E op \in TakeOps : LazyMethod(Latest, op)
  \/ ncalls < MaxCalls /\ Reverse(Latest)
  \/ nvalues < MaxEvals /\ Value(Latest)

SpecTake == Init /\ [][NextTake]_vars

\* SpecRev: one chain of reverse and the methods that leave no while
\* entry, with value() called on it at any point.
RevOps ==
  {OpF("filter", "odd"), OpF("map", "inc"), OpN("drop", 1), OpN("take", 1)}

NextRev ==
  \/ ncalls < MaxCalls /\ \E op \in RevOps : LazyMethod(Latest, op)
  \/ ncalls < MaxCalls /\ Reverse(Latest)
  \/ nvalues < MaxEvals /\ Value(Latest)

SpecRev == Init /\ [][NextRev]_vars

\* SpecWhile: chains of reverse and the while methods in both directions.
WhileCalls == 2
WhileOps ==
  {OpF(m, f) : m \in {"dropWhile", "takeWhile", "dropRightWhile",
                      "takeRightWhile"}, f \in Preds}

NextWhile ==
  \/ ncalls < WhileCalls /\ \E op \in WhileOps : LazyMethod(Latest, op)
  \/ ncalls < WhileCalls /\ Reverse(Latest)
  \/ nvalues < MaxEvals /\ Value(Latest)

SpecWhile == Init /\ [][NextWhile]_vars

\* SpecApi: every kind of wrapper method called on the newest wrapper:
\* lazy methods, reverse, chain, commit, plant, Array methods, the
\* non-chainable lodash functions, tap and value.
ApiOps == {OpF("filter", "odd"), OpM("first"), OpM("last")}
MixinOps == {OpF("some", "odd"), OpF("find", "gt1"), OpM("reduce"),
             OpM("tap")}
ArrayOps == {OpN("push", 1), OpM("pop")}
PlantArrays == {<<2, 1>>}
ApiArrays == {<<>>, <<1>>, <<2, 1>>}

NextApi ==
  \/ ncalls < MaxCalls /\ \E op \in ApiOps : LazyMethod(Latest, op)
  \/ ncalls < MaxCalls /\ Reverse(Latest)
  \/ ncalls < MaxCalls /\ Chain(Latest)
  \/ ncalls < MaxCalls /\ Commit(Latest)
  \/ ncalls < MaxCalls /\ \E a \in PlantArrays : Plant(Latest, a)
  \/ ncalls < MaxCalls /\ \E op \in ArrayOps : ArrayMethod(Latest, op)
  \/ ncalls < MaxCalls /\ \E op \in MixinOps : MixinMethod(Latest, op)
  \/ nvalues < MaxEvals /\ Value(Latest)

InitApi == InitOn(ApiArrays)

SpecApi == InitApi /\ [][NextApi]_vars

\* SpecFrame: every chainable method LazyWrapper.prototype has, called on
\* the newest wrapper, with value() called at any point.
FrameCalls == 2
FrameOps ==
  {OpF("filter", "odd"), OpF("map", "inc"), OpF("dropWhile", "odd"),
   OpF("takeWhile", "gt1"), OpF("dropRightWhile", "odd"),
   OpF("takeRightWhile", "gt1"), OpF("reject", "odd"), OpM("compact"),
   OpN("take", 1), OpN("drop", 1), OpN("takeRight", 1), OpN("dropRight", 1),
   OpM("initial"), OpM("rest"), OpM("toArray"),
   Op("slice", "", 1, TRUE, 2), Op("slice", "", -1, FALSE, 0)}

NextFrame ==
  \/ ncalls < FrameCalls /\ \E op \in FrameOps : LazyMethod(Latest, op)
  \/ ncalls < FrameCalls /\ Reverse(Latest)
  \/ nvalues < MaxEvals /\ Value(Latest)

SpecFrame == InitApi /\ [][NextFrame]_vars

\* SpecThrow: chains of filter, map and takeWhile whose iteratee may throw,
\* with value() called at any point.
ThrowCalls == 3
ThrowOps ==
  {OpF("filter", "odd"), OpF("map", "inc"), OpF("takeWhile", "gt1"),
   OpF("filter", "oddThrow2"), OpF("map", "incThrow3"),
   OpF("takeWhile", "oddThrow2")}

NextThrow ==
  \/ ncalls < ThrowCalls /\ \E op \in ThrowOps : LazyMethod(Latest, op)
  \/ nvalues < MaxEvals /\ Value(Latest)

SpecThrow == Init /\ [][NextThrow]_vars

\* SpecClamp: take, drop, takeRight and dropRight with negative, zero and
\* positive counts, on the wrapped array or after a filter.
ClampCalls == 2
ClampOps ==
  {OpF("filter", "odd")}
  \cup {OpN(m, n) : m \in {"take", "drop", "takeRight", "dropRight"},
                    n \in -MaxN..MaxN}

NextClamp ==
  \/ ncalls < ClampCalls /\ \E op \in ClampOps : LazyMethod(Latest, op)
  \/ nvalues < MaxEvals /\ Value(Latest)

SpecClamp == InitApi /\ [][NextClamp]_vars

\* SpecEmpty: the caller wraps an empty array or null / undefined and
\* builds a chain of the fusable methods and reverse; odd3 is a predicate
\* declared with three parameters, which the dispatch runs eagerly.
EmptyCalls == 3
EmptyOps ==
  {OpF("filter", "odd"), OpF("filter", "odd3"), OpF("map", "inc"),
   OpF("dropWhile", "odd"), OpF("takeWhile", "gt1"),
   OpF("dropRightWhile", "odd"), OpF("takeRightWhile", "gt1"),
   OpN("take", 1), OpN("drop", 1), OpN("takeRight", 1), OpN("dropRight", 1)}

InitEmpty ==
  /\ arrays = <<<<>>>>
  /\ wrappers \in {<<LodashWrapper(RawRef(v), FALSE, <<>>)>> :
                     v \in {ArrRef(1), Undef}}
  /\ ents = <<>>
  /\ made = <<[h |-> 0, op |-> OpM("init")]>>
  /\ chained = {}
  /\ out = NoCall
  /\ prev = NoCall
  /\ ncalls = 0
  /\ nvalues = 0
  /\ nevals = 0
  /\ NoFunction

NextEmpty ==
  \/ ncalls < EmptyCalls /\ \E op \in EmptyOps : LazyMethod(Latest, op)
  \/ ncalls < EmptyCalls /\ Reverse(Latest)
  \/ nvalues < MaxEvals /\ Value(Latest)

SpecEmpty == InitEmpty /\ [][NextEmpty]_vars

\* --------------------------------------------- matches (object patterns)
\* JavaScript primitives an object property holds, by their source text;
\* an object is a function from its keys to such values, an element of a
\* collection is an object or null.
JSValues == {"0", "-0", "1", "NaN", "undefined"}
Keys == {"a", "b"}
KeyOrder == <<"a", "b">>
Objects == UNION {[ks -> JSValues] : ks \in SUBSET Keys}
Null == [null |-> TRUE, own |-> <<>>]
Obj(o) == [null |-> FALSE, own |-> o]
Elements == {Null} \cup {Obj(o) : o \in Objects}

\* x === y
strictEquals(x, y) ==
  /\ x # "NaN" /\ y # "NaN"
  /\ (x = y \/ (x \in {"0", "-0"} /\ y \in {"0", "-0"}))

\* value === value && (value === 0 ? ((1 / value) > 0) : !isObject(value))
isStrictComparable(value) ==
  /\ strictEquals(value, value)
  /\ (IF strictEquals(value, "0") THEN value = "0" ELSE TRUE)

\* baseIsEqual on primitives
baseIsEqual(value, other) ==
  IF strictEquals(value, other)
    THEN ~strictEquals(value, "0") \/ value = other
    ELSE ~strictEquals(value, value) /\ ~strictEquals(other, other)

keys(object) == SelectSeq(KeyOrder, LAMBDA k : k \in DOMAIN object)
\* key in object, object[key]
hasKey(object, key) == key \in DOMAIN object
getKey(object, key) ==
  IF key \in DOMAIN object THEN object[key] ELSE "undefined"

\* The two loops of baseIsMatch with no customizer; each returns false at
\* the first index that fails.
baseIsMatch(object, props, values, strictCompareFlags) ==
  /\ \A index \in 1..Len(props) :
       IF strictCompareFlags[index]
         THEN strictEquals(values[index], getKey(object, props[index]))
         ELSE hasKey(object, props[index])
  /\ \A index \in 1..Len(props) :
       IF strictCompareFlags[index]
         THEN getKey(object, props[index]) # "undefined"
              \/ hasKey(object, props[index])
         ELSE baseIsEqual(values[index], getKey(object, props[index]))

\* The function baseMatches returns for the keys props of source, past
\* the two early returns.
matcher(kind, source, props) ==
  [kind |-> kind, props |-> props,
   values |-> [i \in 1..Len(props) |-> source[props[i]]],
   strictCompareFlags |->
     [i \in 1..Len(props) |-> isStrictComparable(source[props[i]])]]

baseMatches(source) ==
  LET props == keys(source)
      length == Len(props)
  IN IF length = 0 THEN matcher("constant", source, props)
     ELSE IF length = 1 /\ isStrictComparable(source[props[1]])
       THEN matcher("strict", source, props)
     ELSE matcher("isMatch", source, props)

\* Calling the function baseMatches returned with one element.
callMatcher(m, object) ==
  CASE m.kind = "constant" -> TRUE
    [] m.kind = "strict" ->
         /\ ~object.null
         /\ strictEquals(getKey(object.own, m.props[1]), m.values[1])
         /\ (m.values[1] # "undefined" \/ hasKey(object.own, m.props[1]))
    [] OTHER ->
         /\ ~object.null
         /\ baseIsMatch(object.own, m.props, m.values, m.strictCompareFlags)

\* No chain is built.
NoChain ==
  /\ arrays = <<<<>>>>
  /\ wrappers = <<>>
  /\ ents = <<>>
  /\ made = <<>>
  /\ chained = {}
  /\ out = NoCall
  /\ prev = NoCall
  /\ ncalls = 0
  /\ nvalues = 0
  /\ nevals = 0

\* SpecMatch: filter(collection, source) with an object pattern source:
\* baseCallback turns source into baseMatches(source), filter keeps the
\* elements it accepts.
MatchLen == 1
Collections == UNION {[1..n -> Elements] : n \in 0..MatchLen}

InitMatch ==
  /\ NoChain
  /\ closure \in {[kind |-> "matches", source |-> source,
                    predicate |-> baseMatches(source)] : source \in Objects}
  /\ now = 0
  /\ timers = NoTimers
  /\ invoked = <<>>

Filter(collection) ==
  /\ invoked = <<>>
  /\ invoked' = <<[collection |-> collection,
                   result |-> SelectSeq(collection,
                                LAMBDA e : callMatcher(closure.predicate, e))]>>
  /\ UNCHANGED <<closure, now, timers>>
  /\ UNCHANGED chainVars

NextMatch == \E collection \in Collections : Filter(collection)

SpecMatch == InitMatch /\ [][NextMatch]_vars

\* ------------------------------------------------------- before / once
\* The caller's func returns its argument.
Func == [t |-> "function", a |-> <<>>, ref |-> 0]
callFunc(x) == Num(x)

\* before(n, func): the variables the created function closes over; the
\* two arguments may come in either order.  api and n0 record how the
\* function was created.
before(n, func) ==
  LET swap == func.t # "function" /\ n.t = "function"
      n1 == IF swap THEN func ELSE n
      func1 == IF swap THEN n ELSE func
  IN IF func.t # "function" /\ n.t # "function"
       THEN [kind |-> "TypeError"]
       ELSE [kind |-> "before", n |-> n1.a[1], result |-> Undef,
             func |-> func1, api |-> "before", n0 |-> n1.a[1]]

once(func) == [before(func, Num(2)) EXCEPT !.api = "once"]

\* The created function testing n before it decrements it.
beforeCallPostDecrement(c, x) ==
  IF c.n > 0
    THEN [c |-> [c EXCEPT !.n = @ - 1, !.result = callFunc(x)],
          ran |-> TRUE, returned |-> callFunc(x)]
    ELSE [c |-> [c EXCEPT !.n = @ - 1, !.func = Undef],
          ran |-> FALSE, returned |-> c.result]

\* The function before returns, called with x: the closure after the
\* call, whether func ran, and the value returned.
beforeCall(c, x) ==
  IF c.n - 1 > 0
    THEN [c |-> [c EXCEPT !.n = @ - 1, !.result = callFunc(x)],
          ran |-> TRUE, returned |-> callFunc(x)]
    ELSE [c |-> [c EXCEPT !.n = @ - 1, !.func = Undef],
          ran |-> FALSE, returned |-> c.result]

\* SpecBefore: a function made by before(n, func) or once(func), called
\* any number of times.
MaxBefore == 3
MaxInvoked == 4

InitBefore ==
  /\ NoChain
  /\ closure \in {before(Num(n), Func) : n \in -1..MaxBefore}
                 \cup {before(Func, Num(n)) : n \in -1..MaxBefore}
                 \cup {once(Func)}
  /\ now = 0
  /\ timers = NoTimers
  /\ invoked = <<>>

CallBefore(x) ==
  LET call(r) ==
        /\ closure' = r.c
        /\ invoked' = Append(invoked, [arg |-> x, ran |-> r.ran,
                                       returned |-> r.returned])
  IN /\ Len(invoked) < MaxInvoked
     /\ call(beforeCall(closure, x))
     /\ UNCHANGED <<now, timers>>
     /\ UNCHANGED chainVars

NextBefore == \E x \in 1..MaxVal : CallBefore(x)

SpecBefore == InitBefore /\ [][NextBefore]_vars

\* --------------------------------------------------- debounce / throttle
\* maxWait = false
False == -1

\* setTimeout(fn, delay) at time t: the timer gets the next id and is due
\* delay milliseconds later; clearTimeout(id) removes it.
setTimeout(tm, fn, delay, t) ==
  [next |-> tm.next + 1,
   pending |-> tm.pending \cup {[id |-> tm.next, fn |-> fn, due |-> t + delay]}]
clearTimeout(tm, id) ==
  [tm EXCEPT !.pending = {x \in @ : x.id # id}]

\* debounce(func, wait, options): the variables debounced, delayed,
\* maxDelayed and cancel close over.  An id of 0 is undefined, args and
\* thisArg of 0 are unset.
debounce(wait, leading, maxWait, trailing) ==
  [kind |-> "debounce", args |-> 0, maxTimeoutId |-> 0, result |-> Undef,
   stamp |-> 0, thisArg |-> 0, timeoutId |-> 0, trailingCall |-> FALSE,
   lastCalled |-> 0, leading |-> leading,
   maxWait |-> IF maxWait = False THEN False ELSE nativeMax(maxWait, wait),
   trailing |-> trailing, wait |-> IF wait < 0 THEN 0 ELSE wait]

\* throttle(func, wait, {leading, trailing})
throttle(wait, leading, trailing) == debounce(wait, leading, wait, trailing)

\* The state a handler works on: the closure c, the timers tm and the
\* record g of the calls made.
\* result = func.apply(thisArg, args) at time t
apply(m, t) ==
  [m EXCEPT
     !.c.result = callFunc(m.c.args),
     !.g.funcs = @ + 1,
     !.g.sinceCall = @ + 1,
     !.g.prevFuncAt = m.g.lastFunc.at,
     !.g.lastFunc = [at |-> t, arg |-> m.c.args, this |-> m.c.thisArg]]

\* if (!timeoutId && !maxTimeoutId) { args = thisArg = null; }
release(m) ==
  IF m.c.timeoutId = 0 /\ m.c.maxTimeoutId = 0
    THEN [m EXCEPT !.c.args = 0, !.c.thisArg = 0]
    ELSE m

clearId(m, id) == IF id # 0 THEN [m EXCEPT !.tm = clearTimeout(@, id)] ELSE m

\* maxTimeoutId = timeoutId = trailingCall = undefined
forget(m) ==
  [m EXCEPT !.c.maxTimeoutId = 0, !.c.timeoutId = 0,
            !.c.trailingCall = FALSE]

cancel(m) == forget(clearId(clearId(m, m.c.timeoutId), m.c.maxTimeoutId))

\* delayed that never waits for the remaining time.
delayedAtOnce(m, t) ==
  LET isCalled == m.c.trailingCall
      m1 == forget(clearId(m, m.c.maxTimeoutId))
  IN IF isCalled
       THEN release(apply([m1 EXCEPT !.c.lastCalled = t], t))
       ELSE m1

\* delayed, run by the timer timeoutId at time t
delayed(m, t) ==
  LET remaining == m.c.wait - (t - m.c.stamp)
      isCalled == m.c.trailingCall
      m1 == forget(clearId(m, m.c.maxTimeoutId))
  IN IF remaining <= 0 \/ remaining > m.c.wait
       THEN (IF isCalled
               THEN release(apply([m1 EXCEPT !.c.lastCalled = t], t))
               ELSE m1)
       ELSE [m EXCEPT !.c.timeoutId = m.tm.next,
                      !.tm = setTimeout(@, "delayed", remaining, t)]

\* maxDelayed that leaves lastCalled as it was.
maxDelayedKeepsLastCalled(m, t) ==
  LET m1 == forget(clearId(m, m.c.timeoutId))
  IN IF m.c.trailing \/ m.c.maxWait # m.c.wait
       THEN release(apply(m1, t))
       ELSE m1

\* maxDelayed, run by the timer maxTimeoutId at time t
maxDelayed(m, t) ==
  LET m1 == forget(clearId(m, m.c.timeoutId))
  IN IF m.c.trailing \/ m.c.maxWait # m.c.wait
       THEN release(apply([m1 EXCEPT !.c.lastCalled = t], t))
       ELSE m1

\* debounced called at time t with argument x and this binding th
debounced(m, x, th, t) ==
  LET c0 == m.c
      m1 == [m EXCEPT
               !.c.args = x, !.c.stamp = t, !.c.thisArg = th,
               !.c.trailingCall =
                  c0.trailing /\ (c0.timeoutId # 0 \/ ~c0.leading),
               !.g.calls = @ + 1, !.g.sinceCall = 0,
               !.g.prevCall = m.g.lastCall,
               !.g.lastCall = [at |-> t, arg |-> x, this |-> th]]
      leadingCall == c0.maxWait = False /\ c0.leading /\ c0.timeoutId = 0
      m2 == IF c0.maxWait # False /\ c0.maxTimeoutId = 0 /\ ~c0.leading
              THEN [m1 EXCEPT !.c.lastCalled = t]
              ELSE m1
      remaining == c0.maxWait - (t - m2.c.lastCalled)
      isCalled == c0.maxWait # False
                  /\ (remaining <= 0 \/ remaining > c0.maxWait)
      m3 == IF c0.maxWait = False THEN m2
            ELSE IF isCalled
              THEN apply([clearId(m2, m2.c.maxTimeoutId) EXCEPT
                            !.c.maxTimeoutId = 0, !.c.lastCalled = t], t)
            ELSE IF m2.c.maxTimeoutId = 0
              THEN [m2 EXCEPT !.c.maxTimeoutId = m2.tm.next,
                              !.tm = setTimeout(@, "maxDelayed", remaining, t)]
            ELSE m2
      m4 == IF isCalled /\ m3.c.timeoutId # 0
              THEN [clearId(m3, m3.c.timeoutId) EXCEPT !.c.timeoutId = 0]
            ELSE IF m3.c.timeoutId = 0 /\ c0.wait # c0.maxWait
              THEN [m3 EXCEPT !.c.timeoutId = m3.tm.next,
                              !.tm = setTimeout(@, "delayed", c0.wait, t)]
            ELSE m3
      m5 == IF leadingCall THEN apply(m4, t) ELSE m4
  IN IF isCalled \/ leadingCall THEN release(m5) ELSE m5

\* The clock at the time the function is created, and the record of the
\* calls: none made yet.
Epoch == 10
NoCalls ==
  [calls |-> 0, funcs |-> 0, sinceCall |-> 0, prevFuncAt |-> 0,
   lastFunc |-> [at |-> 0, arg |-> 0, this |-> 0],
   prevCall |-> [at |-> 0, arg |-> 0, this |-> 0],
   lastCall |-> [at |-> 0, arg |-> 0, this |-> 0]]

Handled(m) ==
  /\ closure' = m.c
  /\ timers' = m.tm
  /\ invoked' = m.g
  /\ UNCHANGED now
  /\ UNCHANGED chainVars

Handler == [c |-> closure, tm |-> timers, g |-> invoked]

\* The caller calls the debounced / throttled function.
MaxWait == 2
MaxTime == 3
DebCalls == 2
Thises == {1, 2}

CallDebounced(x, th) ==
  /\ invoked.calls < DebCalls
  /\ Handled(debounced(Handler, x, th, now))

\* The caller calls the throttled function.
ThrCalls == 3

CallThrottled(x) ==
  /\ invoked.calls < ThrCalls
  /\ Handled(debounced(Handler, x, 1, now))

\* A timeout that is due runs its function.
Fire(timer) ==
  /\ timer \in timers.pending
  /\ now >= timer.due
  /\ LET m == [Handler EXCEPT !.tm.pending = @ \ {timer}]
     IN IF timer.fn = "delayed" THEN Handled(delayed(m, now))
        ELSE Handled(maxDelayed(m, now))

Cancel == Handled(cancel(Handler))

\* A millisecond passes; time is followed while a timeout is pending.
Tick ==
  /\ now < Epoch + MaxTime \/ \E timer \in timers.pending : timer.due > now
  /\ now' = now + 1
  /\ UNCHANGED <<closure, timers, invoked>>
  /\ UNCHANGED chainVars

\* SpecDebounce: debounce(func, wait) with the default options.  A timeout
\* that is due is run eventually and the clock goes on.
InitDebounce ==
  /\ NoChain
  /\ closure \in {debounce(wait, FALSE, False, TRUE) : wait \in 0..MaxWait}
  /\ now = Epoch
  /\ timers = NoTimers
  /\ invoked = NoCalls

NextDebounce ==
  \/ \E x \in 1..MaxVal : \E th \in Thises : CallDebounced(x, th)
  \/ \E timer \in timers.pending : Fire(timer)
  \/ Tick

SpecDebounce ==
  /\ InitDebounce /\ [][NextDebounce]_vars
  /\ WF_vars(Tick)
  /\ WF_vars(\E timer \in timers.pending : Fire(timer))

\* SpecThrottle: throttle(func, wait, options) with wait > 0 and every
\* combination of leading and trailing; calls, timeouts and cancel().
InitThrottle ==
  /\ NoChain
  /\ closure \in {throttle(wait, leading, trailing) :
                    wait \in 1..MaxWait, leading \in BOOLEAN,
                    trailing \in BOOLEAN}
  /\ now = Epoch
  /\ timers = NoTimers
  /\ invoked = NoCalls

NextThrottle ==
  \/ \E x \in 1..MaxVal : CallThrottled(x)
  \/ \E timer \in timers.pending : Fire(timer)
  \/ Cancel
  \/ Tick

SpecThrottle == InitThrottle /\ [][NextThrottle]_vars

\* ------------------------------------------------------ getView alone
\* SpecView: getView(0, length, transforms) called on the views list a
\* pipeline has collected; a view is pushed by drop / take / dropRight /
\* takeRight with the size already clamped to >= 0.
MaxSize == 2
MaxViews == 3
ViewTypes == {"drop", "dropRight", "take", "takeRight"}

InitView ==
  /\ NoChain
  /\ closure \in {[kind |-> "getView", length |-> length,
                    transforms |-> <<>>] : length \in 0..MaxLen}
  /\ now = 0
  /\ timers = NoTimers
  /\ invoked = <<>>

\* views.push({ 'size': n, 'type': ... })
PushView(type, size) ==
  /\ invoked = <<>>
  /\ Len(closure.transforms) < MaxViews
  /\ closure' = [closure EXCEPT
                   !.transforms = Append(@, [size |-> size, type |-> type])]
  /\ UNCHANGED <<now, timers, invoked>>
  /\ UNCHANGED chainVars

\* view = getView(0, array.length, this.__views__): getView only reads
\* transforms.
CallGetView ==
  /\ invoked = <<>>
  /\ invoked' = <<[transforms |-> closure.transforms,
                   view |-> getView(0, closure.length, closure.transforms)]>>
  /\ UNCHANGED <<closure, now, timers>>
  /\ UNCHANGED chainVars

NextView ==
  \/ \E type \in ViewTypes : \E size \in 0..MaxSize : PushView(type, size)
  \/ CallGetView

SpecView == InitView /\ [][NextView]_vars

\* SpecBound: chains of drop, dropRight and take with counts up to one
\* more than the longest array, with filter, map and reverse, and value()
\* called at any point.
BoundCalls == 2
BoundOps ==
  {OpF("filter", "odd"), OpF("map", "inc")}
  \cup {OpN(m, n) : m \in {"drop", "dropRight", "take"},
                    n \in {1, MaxLen + 1}}

NextBound ==
  \/ ncalls < BoundCalls /\ \E op \in BoundOps : LazyMethod(Latest, op)
  \/ ncalls < BoundCalls /\ Reverse(Latest)
  \/ nvalues < MaxEvals /\ Value(Latest)

SpecBound == Init /\ [][NextBound]_vars

\* SpecDispatch: the fusable methods called on a wrapped array or on
\* wrapped undefined, with iteratees declared with one parameter and with
\* three (evenIndex, plusIndex, which use the index), after chain() or
\* push() or not, and value() called at any point.
DispatchCalls == 2
DispatchOps ==
  {OpF("filter", "odd"), OpF("filter", "evenIndex"), OpF("map", "inc"),
   OpF("map", "plusIndex"), OpF("reject", "evenIndex"),
   OpF("dropWhile", "evenIndex"), OpF("takeWhile", "gt1"), OpN("take", 1),
   OpM("first")}

InitDispatch ==
  /\ arrays \in {<<a>> : a \in ApiArrays}
  /\ wrappers \in {<<LodashWrapper(RawRef(v), FALSE, <<>>)>> :
                     v \in {ArrRef(1), Undef}}
  /\ ents = <<>>
  /\ made = <<[h |-> 0, op |-> OpM("init")]>>
  /\ chained = {}
  /\ out = NoCall
  /\ prev = NoCall
  /\ ncalls = 0
  /\ nvalues = 0
  /\ nevals = 0
  /\ NoFunction

NextDispatch ==
  \/ ncalls < DispatchCalls /\ \E op \in DispatchOps : LazyMethod(Latest, op)
  \/ ncalls < DispatchCalls /\ Chain(Latest)
  \/ ncalls < DispatchCalls /\ ArrayMethod(Latest, OpN("push", 1))
  \/ nvalues < MaxEvals /\ Value(Latest)

SpecDispatch == InitDispatch /\ [][NextDispatch]_vars

\* SpecAfterTake: one chain of filter, reject and take, the predicates
\* differing, with value() called on it at any point.
AfterCalls == 3
AfterOps ==
  {OpF("filter", "identity"), OpF("filter", "gt1"), OpF("reject", "odd")}
  \cup {OpN("take", n) : n \in 1..MaxN}

NextAfterTake ==
  \/ ncalls < AfterCalls /\ \E op \in AfterOps : LazyMethod(Latest, op)
  \/ nvalues < MaxEvals /\ Value(Latest)

SpecAfterTake == Init /\ [][NextAfterTake]_vars

\* SpecSource: chains of the methods that read the wrapped array and
\* build a new one, and reverse, with value() called any number of times.
SourceCalls == 2
SourceOps ==
  {OpF("map", "inc"), OpF("filter", "odd"), OpF("reject", "odd"),
   OpF("takeWhile", "gt1"), OpF("dropWhile", "odd"),
   OpF("takeRightWhile", "gt1"), OpF("dropRightWhile", "odd"),
   OpN("take", 1), OpN("drop", 1), OpN("takeRight", 1), OpN("dropRight", 1),
   Op("slice", "", 1, TRUE, 2), OpM("first"), OpM("last")}

NextSource ==
  \/ ncalls < SourceCalls /\ \E op \in SourceOps : LazyMethod(Latest, op)
  \/ ncalls < SourceCalls /\ Reverse(Latest)
  \/ nvalues < MaxValues /\ Value(Latest)

SpecSource == InitApi /\ [][NextSource]_vars

\* ------------------------------------------------------------- claims
\* The chain of calls that built wrapper h from the wrapped array.
RECURSIVE hist(_)
hist(h) == IF made[h].h = 0 THEN <<>>
           ELSE Append(hist(made[h].h), made[h].op)

\* The value wrapper h evaluates to in the current state.
valueNow(h) ==
  LET r == wrapperValue(wrappers, wrappers[h], State0)
  IN IF isArray(r.v) THEN Arr(elems(r.v, r.s)) ELSE r.v

\* The eager operations applied one at a time, a materialized array
\* between each step.
eagerStep(op, v) ==
  IF v.t = "err" THEN v
  ELSE IF op.m = "reverse"
    THEN (IF isArray(v) THEN Arr(nativeReverseSeq(v.a)) ELSE Err)
    ELSE lodashFunc(op, v).v

RECURSIVE eagerChain(_, _, _)
eagerChain(ops, index, v) ==
  IF index > Len(ops) THEN v
  ELSE eagerChain(ops, index + 1, eagerStep(ops[index], v))

\* The calls whose result the last call returned.
resultOps == IF out.m = "value" THEN hist(out.h)
             ELSE Append(hist(out.h), out.op)

\* C1: the value the first evaluation of a chain of fusable calls returns
\* equals the eager operations applied one at a time to the source array.
C1_FusionEquivalence ==
  (out.ret = "value" /\ nevals = 1)
    => out.v = eagerChain(resultOps, 1, Arr(out.src))

\* C2: value() called twice in a row on the same wrapper, the source
\* array left as it was, returns equal results.
C2_IdempotentValue ==
  (out.m = "value" /\ prev.m = "value" /\ out.h = prev.h
     /\ out.src = prev.src /\ arrays[1] = out.src)
    => out.v = prev.v

\* The result of evaluating wrapper h when no evaluation has touched the
\* entry objects before.
freshEnts == [i \in 1..Len(ents) |->
                [ents[i] EXCEPT !.done = FALSE, !.count = 0, !.index = 0]]
valueAlone(h) ==
  LET r == wrapperValue(wrappers, wrappers[h],
                        [State0 EXCEPT !.ents = freshEnts])
  IN IF isArray(r.v) THEN Arr(elems(r.v, r.s)) ELSE r.v

\* Two wrappers a chain call derived from the same pipeline.
Siblings(a, b) ==
  /\ a # b
  /\ made[a].h = made[b].h
  /\ made[a].h > 0
  /\ wrappers[made[a].h].wrapped.k = "lazy"

\* C3: a wrapper evaluated after its sibling returns what it returns when
\* it is the only one ever evaluated.
C3_SiblingIsolation ==
  (out.m = "value" /\ prev.m = "value" /\ Siblings(out.h, prev.h))
    => out.v = valueAlone(out.h)

\* C7: the lazy slice(start, end) of a wrapped array equals the eager
\* slice of the array.
C7_LazySliceIsEagerSlice ==
  (out.m = "value" /\ Len(hist(out.h)) = 1 /\ hist(out.h)[1].m = "slice")
    => out.v = Arr(slice(out.src, hist(out.h)[1].n, hist(out.h)[1].hasEnd,
                         hist(out.h)[1].end))

\* C4: for a wrapper made by take(n) on receiver P whose value is an
\* array, evaluated in the same state as P: the result has at most n
\* elements, exactly n iff P's value has at least n, else it is P's value.
C4_TakeBound ==
  \A h \in 2..Len(wrappers) :
    made[h].op.m = "take" =>
      LET n == made[h].op.n
          up == valueNow(made[h].h)
          res == valueNow(h)
      IN isArray(up) =>
           /\ isArray(res)
           /\ Len(res.a) <= n
           /\ (Len(res.a) = n <=> Len(up.a) >= n)
           /\ (Len(up.a) < n => res.a = up.a)

\* take(n) on a filtered pipeline, evaluated by value(), cut the result
\* short of the upstream sequence.
C4_Witness ==
  /\ out.m = "value"
  /\ made[out.h].op.m = "take"
  /\ made[out.h].op.n >= 1
  /\ wrappers[made[out.h].h].wrapped.k = "lazy"
  /\ wrappers[made[out.h].h].wrapped.v.filtered
  /\ Len(out.v.a) = made[out.h].op.n
  /\ Len(valueNow(made[out.h].h).a) > made[out.h].op.n

\* Whether the pipeline behind ref has a dropWhile / takeWhile entry.
RECURSIVE hasWhileEntry(_)
hasWhileEntry(ref) ==
  IF ref.k = "lazy"
    THEN \/ \E i \in 1..Len(ref.v.iteratees) :
              ents[ref.v.iteratees[i]].type
                \in {LAZY_DROP_WHILE_FLAG, LAZY_TAKE_WHILE_FLAG}
         \/ hasWhileEntry(ref.v.wrapped)
    ELSE IF ref.k = "lodash" THEN hasWhileEntry(wrappers[ref.id].wrapped)
    ELSE FALSE

valueOfWrapper(w) ==
  LET r == wrapperValue(wrappers, w, State0)
  IN IF isArray(r.v) THEN Arr(elems(r.v, r.s)) ELSE r.v

\* C5: for every pipeline P without dropWhile / takeWhile entries,
\* P.reverse().reverse() evaluates to what P evaluates to.
C5_ReversalSymmetry ==
  \A h \in 1..Len(wrappers) :
    (wrappers[h].wrapped.k = "lazy" /\ ~hasWhileEntry(wrappers[h].wrapped))
      => valueOfWrapper(wrapperReverse(wrapperReverse(wrappers[h], h), 0))
           = valueNow(h)

\* value() was called on a pipeline reversed twice, and returned an array
\* that differs from its own reversal.
C5_Witness ==
  /\ out.m = "value"
  /\ made[out.h].op.m = "reverse"
  /\ made[made[out.h].h].op.m = "reverse"
  /\ made[made[made[out.h].h].h].op.m = "map"
  /\ Len(out.v.a) >= 2
  /\ out.v.a # nativeReverseSeq(out.v.a)
  /\ out.v = valueNow(made[made[out.h].h].h)

\* C6: in the first evaluation of a chain, a while method called right
\* after reverse() works from the other end: the result of
\* P.reverse().dropWhile(p) is the reverse of eager dropRightWhile(P's
\* value, p), likewise takeWhile and takeRightWhile; and the results of the
\* lazy dropRightWhile / takeRightWhile equal the eager ones on the
\* receiver's value.
C6_DirectionRelativeWhile ==
  (out.m = "value" /\ nevals = 1 /\ Len(hist(out.h)) >= 1) =>
    LET ops == hist(out.h)
        n == Len(ops)
        op == ops[n]
        up == eagerChain(SubSeq(ops, 1, n - 1), 1, Arr(out.src))
        up2 == eagerChain(SubSeq(ops, 1, n - 2), 1, Arr(out.src))
    IN /\ op.m = "dropRightWhile"
            => out.v = Arr(dropRightWhile(up.a, op.f))
       /\ op.m = "takeRightWhile"
            => out.v = Arr(takeRightWhile(up.a, op.f))
       /\ (n >= 2 /\ op.m = "dropWhile" /\ ops[n - 1].m = "reverse")
            => out.v = Arr(nativeReverseSeq(dropRightWhile(up2.a, op.f)))
       /\ (n >= 2 /\ op.m = "takeWhile" /\ ops[n - 1].m = "reverse")
            => out.v = Arr(nativeReverseSeq(takeRightWhile(up2.a, op.f)))

\* value() was called on wrap(A).reverse().dropWhile(p), the predicate
\* dropped some but not all elements, and the end it works from mattered.
C6_Witness ==
  /\ out.m = "value"
  /\ nevals = 1
  /\ made[out.h].h > 0
  /\ made[made[out.h].h].h = 1
  /\ made[out.h].op.m = "dropWhile"
  /\ made[made[out.h].h].op.m = "reverse"
  /\ out.v = Arr(nativeReverseSeq(dropRightWhile(out.src, made[out.h].op.f)))
  /\ out.v.a # dropWhile(out.src, made[out.h].op.f)
  /\ Len(out.v.a) \in 1..(Len(out.src) - 1)

\* C8: a chain call that returns a wrapper (commit, which executes the
\* chain by contract, aside) neither evaluates the pipeline nor invokes an
\* iteratee at call time.
C8_DeferredExecution ==
  (out.ret = "wrapper" /\ out.m # "commit")
    => (~out.evaluated /\ out.calls = 0)

Unwrapping == {"reduce", "find", "some", "first", "last"}

\* C9 as stated: reduce, find, some, first and last never return a wrapper,
\* whatever the receiver's chainAll flag.
C9_AlwaysUnwrapped ==
  out.m \in Unwrapping => out.ret # "wrapper"

\* C9 amended: a call of reduce, find, some, first or last that returns,
\* returns the unwrapped result exactly when the receiver's chainAll flag is
\* false; under explicit chaining it returns a wrapper whose chainAll flag
\* is true.
C9_UnwrappedUnlessChained ==
  (out.m \in Unwrapping /\ out.ret # "throw") =>
    /\ out.ret = "wrapper" <=> out.chainAll
    /\ out.ret = "wrapper" => wrappers[out.rh].chain

\* reduce was called on a wrapper under explicit chaining and on one without.
C9_Witness ==
  /\ out.m = "reduce"
  /\ out.chainAll
  /\ out.ret = "wrapper"
  /\ prev.m = "chain"

\* C10: once chain() has been called, every wrapper derived from its result
\* has the chainAll flag set, and every call on such a wrapper other than
\* value() that returns, returns a wrapper whose chainAll flag is set.
C10_ChainSticky ==
  /\ \A h \in chained : wrappers[h].chain
  /\ (out.h \in chained /\ out.m # "value" /\ out.ret # "throw")
       => (out.ret = "wrapper" /\ out.rh \in chained
           /\ wrappers[out.rh].chain)

\* reverse was called on a lazy wrapper two calls after chain() and returned
\* a new chained wrapper.
C10_Witness ==
  /\ out.m = "reverse"
  /\ out.h \in chained
  /\ wrappers[out.h].wrapped.k = "lazy"
  /\ made[out.h].h \in chained
  /\ out.rh # out.h
  /\ wrappers[out.rh].chain

\* The first n recorded actions applied to r0, each one to the result of
\* those before it.
RECURSIVE foldActions(_, _, _)
foldActions(actions, n, r0) ==
  IF n = 0 THEN r0
  ELSE LET sofar == foldActions(actions, n - 1, r0)
       IN IF sofar.v.t = "err" THEN sofar
          ELSE applyAction(actions[n], sofar.v, sofar.s)

\* The wrapped value of wrapper h evaluated, then its actions folded over it.
foldedValue(h) ==
  LET w == wrappers[h]
      r0 == IF w.wrapped.k = "lazy" THEN lazyValue(wrappers, w.wrapped.v, State0)
            ELSE [v |-> w.wrapped.v, s |-> State0]
      r == foldActions(w.actions, Len(w.actions), r0)
  IN [v |-> IF isArray(r.v) THEN Arr(elems(r.v, r.s)) ELSE r.v, s |-> r.s]

\* C11: value() returns the wrapped value, evaluated first, with the
\* recorded actions applied to it left to right, each to the result of the
\* one before; what the actions did to the arrays is their effect in that
\* order.
C11_EvaluationOrder ==
  [][nvalues' # nvalues =>
       /\ out'.v = foldedValue(out'.h).v
       /\ arrays' = foldedValue(out'.h).s.arrs]_vars

\* value() was called on a wrapper of the source array with push(1) then
\* reverse() recorded, and returned what that order gives and the opposite
\* order does not.
C11_Witness ==
  /\ out.m = "value"
  /\ nevals = 1
  /\ wrappers[out.h].wrapped = RawRef(ArrRef(1))
  /\ Len(wrappers[out.h].actions) = 2
  /\ wrappers[out.h].actions[1].kind = "push"
  /\ wrappers[out.h].actions[2].kind = "reverse"
  /\ out.v = Arr(nativeReverseSeq(Append(out.src, 1)))
  /\ out.v.a # Append(nativeReverseSeq(out.src), 1)

\* C12: a chainable call on a wrapper whose value is a pipeline returns a
\* new wrapper holding a pipeline, and leaves every existing wrapper's
\* pipeline (source reference, direction, take count, filtered flag,
\* operations and views lists) and every existing operation entry as
\* they were.
C12_PipelineImmutability ==
  [][(ncalls' # ncalls /\ wrappers[out'.h].wrapped.k = "lazy") =>
       /\ out'.ret = "wrapper"
       /\ out'.rh > Len(wrappers)
       /\ wrappers'[out'.rh].wrapped.k = "lazy"
       /\ \A h \in 1..Len(wrappers) : wrappers'[h] = wrappers[h]
       /\ \A i \in 1..Len(ents) : ents'[i] = ents[i]]_vars

\* drop(1) was called on a dropWhile pipeline whose entry an earlier
\* value() has advanced: the new pipeline wraps the receiver and holds
\* one dropWhile entry with limit 1.
C12_Witness ==
  /\ out.m = "drop" /\ nevals = 1 /\ ncalls = 2
  /\ wrappers[out.h].wrapped.k = "lazy"
  /\ wrappers[out.h].wrapped.v.filtered
  /\ Len(wrappers[out.h].wrapped.v.iteratees) = 1
  /\ wrappers[out.rh].wrapped.v.wrapped = LazyRef(wrappers[out.h].wrapped.v)
  /\ Len(wrappers[out.rh].wrapped.v.iteratees) = 1
  /\ ents[wrappers[out.rh].wrapped.v.iteratees[1]].limit = 1
  /\ ents[wrappers[out.h].wrapped.v.iteratees[1]].limit = -1
  /\ ents[wrappers[out.h].wrapped.v.iteratees[1]].done

\* C13: every chainable call on a wrapper, chain() included, returns a
\* new wrapper object and leaves the receiver's wrapped value, actions
\* list and chainAll flag as they were.
C13_CopyOnWrite ==
  [][(ncalls' # ncalls /\ out'.ret = "wrapper") =>
       /\ out'.rh > Len(wrappers)
       /\ wrappers'[out'.h] = wrappers[out'.h]]_vars

\* The iteratees of ops called in turn with one element, from position k:
\* the element comes out, is skipped, ends the pass, or an iteratee throws
\* and none after it is called.
RECURSIVE invokeFrom(_, _, _, _)
invokeFrom(ops, k, x, calls) ==
  IF k > Len(ops) THEN [go |-> "emit", value |-> x, calls |-> calls]
  ELSE IF throws(ops[k].f, x)
    THEN [go |-> "throw", value |-> x, calls |-> calls + 1]
  ELSE IF ops[k].m = "map"
    THEN invokeFrom(ops, k + 1, callMap(ops[k].f, x), calls + 1)
  ELSE IF callPred(ops[k].f, x)
    THEN invokeFrom(ops, k + 1, x, calls + 1)
  ELSE [go |-> IF ops[k].m = "filter" THEN "skip" ELSE "stop",
        value |-> x, calls |-> calls + 1]

\* The elements of array taken in order from index i: the first exception
\* ends the evaluation, with the exception as its only outcome.
RECURSIVE failFast(_, _, _, _, _)
failFast(ops, array, i, result, calls) ==
  IF i > Len(array) THEN [v |-> Arr(result), calls |-> calls]
  ELSE LET then(r) ==
             CASE r.go = "emit" ->
                    failFast(ops, array, i + 1, Append(result, r.value),
                             r.calls)
               [] r.go = "skip" ->
                    failFast(ops, array, i + 1, result, r.calls)
               [] r.go = "stop" -> [v |-> Arr(result), calls |-> r.calls]
               [] OTHER -> [v |-> Thrown(r.value), calls |-> r.calls]
       IN then(invokeFrom(ops, 1, array[i], calls))

\* C14: an exception thrown by the caller's iteratee ends the evaluation
\* at that element: value() throws that same exception, returns no
\* array, and no iteratee is called after the one that threw.
C14_FailFast ==
  [][nvalues' # nvalues =>
       LET same(r) ==
             /\ out'.v = r.v
             /\ out'.calls = r.calls
             /\ out'.ret = IF r.v.t = "err" THEN "throw" ELSE "value"
       IN same(failFast(hist(out'.h), arrays[1], 1, <<>>, 0))]_vars

\* map(inc).filter(odd).map(incThrow3) on a two-element array starting
\* with 2: the third iteratee throws on the first element after three
\* calls, and the second element is never visited.
C14_Witness ==
  /\ out.m = "value" /\ out.ret = "throw"
  /\ out.v = Thrown(3) /\ out.calls = 3
  /\ Len(out.src) = 2 /\ out.src[1] = 2
  /\ Len(hist(out.h)) = 3
  /\ hist(out.h)[3].f = "incThrow3"

\* C15: a count n <= 0 acts as 0.  Eagerly take and takeRight give the
\* empty array and drop and dropRight give the whole array; a wrapper made
\* by take(n) or takeRight(n) evaluates to the empty array and one made by
\* drop(n) or dropRight(n) to the value of its receiver, both evaluated
\* in the same state.  (The eager functions do not depend on the state
\* and are compared before the first call.)
C15_NegativeCountClamped ==
  /\ (ncalls = 0 /\ nvalues = 0) =>
       \A a \in Arrays0 : \A n \in -MaxN..0 :
         /\ take(a, n) = <<>> /\ takeRight(a, n) = <<>>
         /\ drop(a, n) = a /\ dropRight(a, n) = a
  /\ \A h \in {Latest} \ {1} :
       (made[h].op.m \in {"take", "drop", "takeRight", "dropRight"}
          /\ made[h].op.n <= 0) =>
         LET up == valueNow(made[h].h)
             res == valueNow(h)
         IN /\ isArray(up) /\ isArray(res)
            /\ res.a = IF made[h].op.m \in {"take", "takeRight"} THEN <<>>
                       ELSE up.a

\* value() of filter(odd).dropRight(-1) on [2, 1] returned [1], the value
\* of the filter.
C15_Witness ==
  /\ out.m = "value" /\ out.ret = "value"
  /\ made[out.h].op = OpN("dropRight", -1)
  /\ made[made[out.h].h].op.m = "filter"
  /\ out.src = <<2, 1>>
  /\ out.v = Arr(<<1>>)

\* Whether the caller wrapped null / undefined.
onNull == wrappers[1].wrapped = RawRef(Undef)

noReverse(ops) == \A i \in 1..Len(ops) : ops[i].m # "reverse"

\* C16: on a wrapped empty array every chain evaluates to the empty array
\* and no iteratee is called; on wrapped null / undefined every chain of
\* one or more of map, filter, take, drop and the while and Right variants
\* evaluates to the empty array; and none of the calls raises.
C16_EmptyInputs ==
  /\ (out.m = "value" /\ ~onNull) =>
       (out.ret = "value" /\ out.v = Arr(<<>>) /\ out.calls = 0)
  /\ (out.m = "value" /\ onNull /\ Len(hist(out.h)) > 0
        /\ noReverse(hist(out.h))) =>
       (out.ret = "value" /\ out.v = Arr(<<>>) /\ out.calls = 0)
  /\ (out.m \notin {"init", "value"} /\ (onNull => noReverse(resultOps))) =>
       out.ret = "wrapper"

\* value() of _(null).map(inc).filter(odd) returned [].
C16_Witness ==
  /\ onNull
  /\ out.m = "value" /\ out.v = Arr(<<>>)
  /\ Len(hist(out.h)) = 2
  /\ hist(out.h)[1] = OpF("map", "inc")
  /\ hist(out.h)[2] = OpF("filter", "odd")

\* x and y are equal values (zero equal to zero, NaN to NaN).
equalValue(x, y) == x = y \/ (x \in {"0", "-0"} /\ y \in {"0", "-0"})

\* Every key of the pattern is present on the element with an equal value.
accepts(source, element) ==
  \A k \in DOMAIN source :
    /\ ~element.null
    /\ hasKey(element.own, k)
    /\ equalValue(element.own[k], source[k])

\* C17: filter with an object pattern keeps exactly the elements that have
\* every key of the pattern with an equal value, and the function made for
\* a single key with a primitive value keeps the same elements as the
\* general matching function for that pattern.
C17_PartialMatch ==
  \A i \in 1..Len(invoked) :
    /\ invoked[i].result =
         SelectSeq(invoked[i].collection,
                   LAMBDA e : accepts(closure.source, e))
    /\ closure.predicate.kind = "strict" =>
         invoked[i].result =
           SelectSeq(invoked[i].collection,
                     LAMBDA e : callMatcher(matcher("isMatch", closure.source,
                                                    keys(closure.source)), e))

\* The indices of the calls before call k on which func ran.
ranBefore(k) == {j \in 1..(k - 1) : invoked[j].ran}

\* What the last func invocation before call k returned.
lastResult(k) ==
  IF ranBefore(k) = {} THEN Undef
  ELSE invoked[CHOOSE j \in ranBefore(k) : \A i \in ranBefore(k) : i <= j]
         .returned

\* C18: func runs exactly on the calls numbered less than n; a call from
\* the n-th on returns what the last func invocation returned; after
\* once(func) func runs at most once and every later call returns the
\* first call's result.
C18_BeforeLimit ==
  /\ \A k \in 1..Len(invoked) :
       /\ invoked[k].ran <=> k < closure.n0
       /\ invoked[k].ran => invoked[k].returned = callFunc(invoked[k].arg)
       /\ ~invoked[k].ran => invoked[k].returned = lastResult(k)
  /\ Cardinality(ranBefore(Len(invoked) + 1)) <= nativeMax(closure.n0 - 1, 0)
  /\ closure.api = "once" =>
       /\ Cardinality(ranBefore(Len(invoked) + 1)) <= 1
       /\ \A k \in 2..Len(invoked) :
            invoked[k].returned = invoked[1].returned

\* A function made by once(func) was called three times with different
\* arguments: func ran on the first call only and the third call returned
\* the first call's result.
C18_Witness ==
  /\ closure.api = "once"
  /\ Len(invoked) = 3
  /\ invoked[1].ran /\ ~invoked[2].ran /\ ~invoked[3].ran
  /\ invoked[3].arg # invoked[1].arg
  /\ invoked[3].returned = callFunc(invoked[1].arg)

\* A call of the debounced function that func has not been invoked for.
Owed == invoked.calls > 0 /\ invoked.sinceCall = 0

\* C19: with the default options func is invoked no earlier than wait
\* milliseconds after the most recent call, at most once after it and
\* with that call's argument and this binding; and once a call has been
\* made func is eventually invoked for it or for a later call.
C19_DebounceTrailing ==
  /\ [](/\ invoked.sinceCall <= 1
        /\ invoked.sinceCall = 1 =>
             /\ invoked.lastFunc.at - invoked.lastCall.at >= closure.wait
             /\ invoked.lastFunc.arg = invoked.lastCall.arg
             /\ invoked.lastFunc.this = invoked.lastCall.this)
  /\ (Owed ~> ~Owed)

\* Two calls less than wait apart with different arguments and this
\* bindings, then one invocation of func, wait after the second call, with
\* the second call's argument and this binding.
C19_Witness ==
  /\ closure.maxWait = False
  /\ invoked.calls = 2 /\ invoked.funcs = 1 /\ invoked.sinceCall = 1
  /\ invoked.lastCall.at - invoked.prevCall.at < closure.wait
  /\ invoked.lastCall.at > invoked.prevCall.at
  /\ invoked.prevCall.arg # invoked.lastCall.arg
  /\ invoked.prevCall.this # invoked.lastCall.this
  /\ invoked.lastFunc.arg = invoked.lastCall.arg
  /\ invoked.lastFunc.at = invoked.lastCall.at + closure.wait

\* C20: any two invocations of func through a throttled function are at
\* least wait milliseconds apart.
C20_ThrottleSpacing ==
  invoked.funcs >= 2 =>
    invoked.lastFunc.at - invoked.prevFuncAt >= closure.wait

\* func was invoked on the leading edge and again by the timeout, wait
\* milliseconds later, for a second call made in between.
C20_Witness ==
  /\ closure.maxWait = closure.wait
  /\ closure.leading /\ closure.trailing
  /\ invoked.calls = 2 /\ invoked.funcs = 2
  /\ invoked.prevFuncAt = invoked.prevCall.at
  /\ invoked.lastCall.at > invoked.prevCall.at
  /\ invoked.lastFunc.at = invoked.prevFuncAt + closure.wait
  /\ invoked.lastFunc.arg = invoked.lastCall.arg

\* The view after the first k transforms, by the rule of each type.
RECURSIVE foldView(_, _, _)
foldView(length, transforms, k) ==
  IF k = 0 THEN [start |-> 0, end |-> length]
  ELSE LET v == foldView(length, transforms, k - 1)
           size == transforms[k].size
           type == transforms[k].type
       IN [start |-> IF type = "drop" THEN v.start + size
                     ELSE IF type = "takeRight" /\ v.end - size > v.start
                       THEN v.end - size
                     ELSE v.start,
           end |-> IF type = "dropRight" THEN v.end - size
                   ELSE IF type = "take" /\ v.start + size < v.end
                     THEN v.start + size
                   ELSE v.end]

\* C21: getView(0, length, transforms) is the fold of the transforms from
\* left to right, from start = 0 and end = length, and the transforms
\* list is the same after the call.
C21_ViewFold ==
  invoked # <<>> =>
    /\ invoked[1].view =
         foldView(closure.length, invoked[1].transforms,
                  Len(invoked[1].transforms))
    /\ closure.transforms = invoked[1].transforms

\* drop, take, takeRight in a row, the take cutting the end and the
\* takeRight moving the start.
C21_Witness ==
  /\ invoked # <<>>
  /\ Len(closure.transforms) = 3
  /\ closure.transforms[1].type = "drop"
  /\ closure.transforms[2].type = "take"
  /\ closure.transforms[3].type = "takeRight"
  /\ invoked[1].view.end < closure.length
  /\ invoked[1].view.start > closure.transforms[1].size

\* The pass lazyValue of the pipeline lazy makes in evaluation state s: the
\* array the wrapped value gave (r0), the view computed on it and what
\* the element loop did.
passOf(lazy, s) ==
  LET on(r0) ==
        LET array == elems(r0.v, r0.s)
        IN [array |-> array, before |-> r0.s.calls,
            view |-> getView(0, Len(array), lazy.views),
            pass |-> lazyPass(array, lazy, r0.s.ents, r0.s.calls)]
  IN on(IF lazy.wrapped.k = "lazy" THEN lazyValue(wrappers, lazy.wrapped.v, s)
        ELSE wrapperValue(wrappers, wrappers[lazy.wrapped.id], s))

\* C22: value() on a pipeline returns (the evaluation ends), its element
\* loop runs at most max(0, end - start) times for the view computed, and
\* when end < start the result is the empty array and no iteratee is
\* invoked by the loop.
C22_BoundedTermination ==
  [][(nvalues' # nvalues /\ wrappers[out'.h].wrapped.k = "lazy") =>
       LET bounded(p) ==
             /\ out'.ret = "value"
             /\ out'.v = Arr(p.pass.result)
             /\ out'.calls = p.pass.calls
             /\ p.pass.iters <= nativeMax(0, p.view.end - p.view.start)
             /\ p.view.end < p.view.start =>
                  /\ p.pass.iters = 0
                  /\ out'.v = Arr(<<>>)
                  /\ out'.calls = p.before
       IN bounded(passOf(wrappers[out'.h].wrapped.v, State0))]_vars

\* drop(n).filter(p) with n above the length of a non-empty array,
\* evaluated: the view has end < start, the result is empty and the
\* predicate was not called.
C22_Witness ==
  /\ out.m = "value" /\ out.ret = "value"
  /\ Len(out.src) > 0
  /\ Len(hist(out.h)) = 2
  /\ hist(out.h)[1].m = "drop" /\ hist(out.h)[1].n > Len(out.src)
  /\ hist(out.h)[2].m = "filter"
  /\ wrappers[out.h].wrapped.k = "lazy"
  /\ getView(0, Len(out.src), wrappers[out.h].wrapped.v.views).end
       < getView(0, Len(out.src), wrappers[out.h].wrapped.v.views).start
  /\ out.v = Arr(<<>>) /\ out.calls = 0

\* The indices of array at which a takeWhile predicate of ops returns
\* false, the elements before them neither ending the evaluation nor
\* throwing.
stopsAt(ops, array) ==
  {i \in 1..Len(array) :
     /\ invokeFrom(ops, 1, array[i], 0).go = "stop"
     /\ \A j \in 1..(i - 1) :
          invokeFrom(ops, 1, array[j], 0).go \in {"emit", "skip"}}

\* C23: when a takeWhile predicate returns false for the element at index
\* i, value() returns what the elements before i gave and the element at
\* i and those after it give nothing; the iteratees are called for the
\* elements up to i, for the element at i up to the failing predicate,
\* and for no element after i.
C23_TakeWhileEarlyExit ==
  [][nvalues' # nvalues =>
       \A i \in stopsAt(hist(out'.h), arrays[1]) :
         LET ops == hist(out'.h)
             kept(r) ==
               /\ out'.ret = "value"
               /\ out'.v = r.v
               /\ out'.calls
                    = r.calls + invokeFrom(ops, 1, arrays[1][i], 0).calls
         IN kept(failFast(ops, SubSeq(arrays[1], 1, i - 1), 1, <<>>, 0))]_vars

\* takeWhile(gt1).map(inc) on [1, 2]: the predicate fails on the first
\* element after one call, and the second element, which would pass, is
\* never visited.
C23_Witness ==
  /\ out.m = "value" /\ out.ret = "value"
  /\ out.src = <<1, 2>>
  /\ Len(hist(out.h)) = 2
  /\ hist(out.h)[1] = OpF("takeWhile", "gt1")
  /\ hist(out.h)[2] = OpF("map", "inc")
  /\ stopsAt(hist(out.h), out.src) = {1}
  /\ out.v = Arr(<<>>) /\ out.calls = 1

\* The chain ops applied one operation at a time from position index to
\* the array v, counting the calls of the iteratees: a dropWhile or drop
\* stage skips elements while its predicate holds (or until n are
\* skipped), passes the first element that fails and every element after
\* it, and calls its predicate for the skipped elements and the first
\* one passed only.
RECURSIVE dropStages(_, _, _, _)
dropStages(ops, index, v, calls) ==
  IF index > Len(ops) THEN [v |-> v, calls |-> calls]
  ELSE LET next(r) == dropStages(ops, index + 1, r.v, calls + r.calls)
       IN next(lodashFunc(ops[index], v))

\* Chains of filter, map, dropWhile and drop only, with every drop after
\* a filter or a dropWhile (where it becomes a bounded dropWhile entry).
dropChain(ops) ==
  /\ \E i \in 1..Len(ops) : ops[i].m \in {"dropWhile", "drop"}
  /\ \A i \in 1..Len(ops) :
       /\ ops[i].m \in {"filter", "map", "dropWhile", "drop"}
       /\ ops[i].m = "drop" =>
            \E j \in 1..(i - 1) : ops[j].m \in {"filter", "dropWhile"}

\* C24: in every evaluation a dropWhile entry skips the elements that
\* reach it while its predicate holds (a bounded drop: until limit
\* elements are skipped), passes on the first element for which it fails
\* and every element after it, and calls the predicate for no element
\* after that one.
C24_DropWhileTransition ==
  [][(nvalues' # nvalues /\ dropChain(hist(out'.h))) =>
       LET same(r) == out'.v = r.v /\ out'.calls = r.calls
       IN same(dropStages(hist(out'.h), 1, Arr(arrays[1]), 0))]_vars

\* C25: every evaluation finds the dropWhile / bounded drop entries fresh:
\* value() returns the value, and makes the number of iteratee calls, of
\* an evaluation that starts with done = false and count = 0 in every
\* entry, whatever earlier evaluations left in them.
C25_FreshScratchState ==
  [][nvalues' # nvalues =>
       LET same(r) ==
             /\ out'.v = (IF isArray(r.v) THEN Arr(elems(r.v, r.s)) ELSE r.v)
             /\ out'.calls = r.s.calls
       IN same(wrapperValue(wrappers, wrappers[out'.h],
                            [State0 EXCEPT !.ents = freshEnts]))]_vars

\* Whether the dispatch may fuse the call op on the wrapper this: the
\* wrapped value is an array or a pipeline, and a function iteratee of
\* filter / map / reject / the While methods is declared with one
\* parameter.
fusable(this, op) ==
  /\ this.wrapped.k = "lazy" \/ (this.wrapped.k = "raw" /\ isArray(this.wrapped.v))
  /\ (op.m \in {"filter", "map", "reject", "dropWhile", "takeWhile",
                 "dropRightWhile", "takeRightWhile"}
        /\ op.f # "") => op.f \notin ThreeParams

\* The value of wrapper h of the heap ws in the state with entries es and
\* arrays as.
valueIn(ws, h, es, as) ==
  LET r == wrapperValue(ws, ws[h], [ents |-> es, arrs |-> as, calls |-> 0])
  IN IF isArray(r.v) THEN Arr(elems(r.v, r.s)) ELSE r.v

\* The call is recorded as a deferred action: the wrapper returned keeps
\* the receiver's wrapped value, no entry is made, nothing is evaluated,
\* and its value is the eager function, which calls the iteratee with
\* (element, index, collection), applied to the receiver's value.
deferred(this, next) ==
  /\ next.ents = ents
  /\ next.out.ret = "wrapper" /\ ~next.out.evaluated
  /\ next.out.rh = Len(wrappers) + 1
  /\ next.wrappers[next.out.rh].wrapped = this.wrapped
  /\ next.wrappers[next.out.rh].actions
       = Append(this.actions, Action("thru", "lodashFunc", next.out.op))
  /\ LET v == valueIn(wrappers, next.out.h, ents, arrays)
     IN v.t # "err" =>
          valueIn(next.wrappers, next.out.rh, next.ents, next.arrays)
            = lodashFunc(next.out.op, v).v

\* The call added an operation to a pipeline.
appended(this, next) ==
  \/ next.ents # ents
  \/ /\ next.out.ret = "wrapper"
     /\ next.wrappers[next.out.rh].wrapped.k = "lazy"
     /\ next.wrappers[next.out.rh].wrapped # this.wrapped

\* C26 as stated: a call of a fusable method adds to a pipeline only when
\* the wrapped value is an array or a pipeline and the iteratee is
\* declared with one parameter; every other call is recorded as a
\* deferred action running the eager function.
C26_LazyEagerDispatch ==
  [][(ncalls' # ncalls /\ out'.m \in LazyMethods) =>
       LET this == wrappers[out'.h]
           next == [ents |-> ents', out |-> out', wrappers |-> wrappers',
                    arrays |-> arrays']
       IN /\ appended(this, next) => fusable(this, out'.op)
          /\ ~fusable(this, out'.op) => deferred(this, next)]_vars

\* C26 amended: as stated, except that first and last on a wrapper
\* without explicit chaining are not recorded: they run the eager
\* function at once on the receiver's value and return its result.
C26_DispatchUnlessUnwrapped ==
  [][(ncalls' # ncalls /\ out'.m \in LazyMethods) =>
       LET this == wrappers[out'.h]
           next == [ents |-> ents', out |-> out', wrappers |-> wrappers',
                    arrays |-> arrays']
       IN /\ appended(this, next) => fusable(this, out'.op)
          /\ (~fusable(this, out'.op)
                /\ ~lazyUnwraps(retUnwrappedLazy(out'.m), this.chain))
               => deferred(this, next)
          /\ (~fusable(this, out'.op)
                /\ lazyUnwraps(retUnwrappedLazy(out'.m), this.chain))
               => /\ out'.ret # "wrapper" /\ out'.evaluated
                  /\ wrappers' = wrappers /\ ents' = ents
                  /\ LET v == valueIn(wrappers, out'.h, ents, arrays)
                     IN v.t # "err" => out'.v = lodashFunc(out'.op, v).v]_vars

\* filter(evenIndex), a predicate declared with three parameters, on the
\* wrapped array [2, 1] was recorded as an action, and value() gave the
\* element at index 0: the predicate saw the index.
C26_Witness ==
  /\ out.m = "value" /\ out.ret = "value"
  /\ out.src = <<2, 1>>
  /\ hist(out.h) = <<OpF("filter", "evenIndex")>>
  /\ wrappers[out.h].wrapped = RawRef(ArrRef(1))
  /\ Len(wrappers[out.h].actions) = 1
  /\ ents = <<>>
  /\ out.v = Arr(<<2>>)

\* Chains that start with a filter and go on with filter and take only:
\* one pipeline with the predicates in its queue and a takeCount.
filterTake(ops) ==
  /\ Len(ops) > 0 /\ ops[1].m = "filter"
  /\ \A i \in 1..Len(ops) : ops[i].m \in {"filter", "take"}

\* The smallest count of the take calls of ops (POSITIVE_INFINITY if none).
RECURSIVE leastTake(_, _)
leastTake(ops, index) ==
  IF index > Len(ops) THEN POSITIVE_INFINITY
  ELSE IF ops[index].m = "take"
    THEN nativeMin(nativeMax(ops[index].n, 0), leastTake(ops, index + 1))
  ELSE leastTake(ops, index + 1)

\* The length of the shortest prefix of array whose elements give count
\* elements through the predicates fs; the whole array if none does.
prefixFor(fs, array, count) ==
  LET enough == {i \in 0..Len(array) :
                   Len(failFast(fs, SubSeq(array, 1, i), 1, <<>>, 0).v.a)
                     >= count}
  IN IF enough = {} THEN Len(array)
     ELSE CHOOSE i \in enough : \A j \in enough : i <= j

\* C27: in an evaluation of filter(p)...take(k) every predicate is called
\* at most once for each source element, and for no element after the one
\* that gave the takeCount-th element of the result: the calls made are
\* those for the source prefix ending at that element, and the result is
\* what that prefix gives.
C27_ShortcutFusion ==
  [][(nvalues' # nvalues /\ filterTake(hist(out'.h))) =>
       LET ops == hist(out'.h)
           fs == SelectSeq(ops, LAMBDA op : op.m = "filter")
           cut == prefixFor(fs, arrays[1], leastTake(ops, 1))
           same(r) ==
             /\ out'.v = r.v
             /\ out'.calls = r.calls
             /\ out'.calls <= Len(fs) * cut
       IN same(failFast(fs, SubSeq(arrays[1], 1, cut), 1, <<>>, 0))]_vars

\* filter(odd).take(1) on a two-element array starting with an odd
\* number: one call of the predicate, the second element never visited.
C27_Witness ==
  /\ out.m = "value" /\ out.ret = "value"
  /\ Len(out.src) = 2 /\ out.src[1] = 1
  /\ hist(out.h) = <<OpF("filter", "odd"), OpN("take", 1)>>
  /\ out.v = Arr(<<1>>) /\ out.calls = 1

\* The chained calls as actions, and their effect applied one after the
\* other to the wrapped value v in evaluation state s.
asAction(op) ==
  Action("", CASE op.m \in {"push", "pop", "reverse", "some", "find",
                           "reduce"} -> op.m
               [] op.m = "tap" -> "noop"
               [] OTHER -> "lodashFunc", op)

inOrder(ops, v, s) ==
  LET r == foldActions([i \in 1..Len(ops) |-> asAction(ops[i])], Len(ops),
                       [v |-> v, s |-> s])
  IN IF isArray(r.v) THEN Arr(elems(r.v, r.s)) ELSE r.v

\* Chains on the first wrapper in which a call that is not fusable comes
\* before a fusable one.
actionFirst(ops) ==
  /\ \A i \in 1..Len(ops) : ops[i].m \notin {"commit", "plant", "init"}
  /\ \E i \in 1..Len(ops) : \E j \in (i + 1)..Len(ops) :
       /\ ops[i].m \notin LazyMethods
       /\ ops[j].m \in LazyMethods

\* C28: a call that hands back the chain's result (value(), or first /
\* last / pop / some / find / reduce ending the chain), on a chain with an
\* action before a fusable operation, gives what all the chained
\* operations give applied in the order they were chained, the fusable
\* one eagerly when the action's result is not an array.
C28_ChainOrder ==
  [][LET ops == IF out'.m = "value" THEN hist(out'.h)
                ELSE Append(hist(out'.h), out'.op)
         inorder == inOrder(ops, wrappers[1].wrapped.v, State0)
     IN (out'.evaluated /\ actionFirst(ops)) =>
          IF out'.ret = "wrapper"
            THEN wrappers'[out'.rh].wrapped = RawRef(inorder)
            ELSE out'.v = inorder]_vars

\* The wrapper k calls before wrapper h in its chain.
RECURSIVE ancestor(_, _)
ancestor(h, k) == IF k = 0 THEN h ELSE ancestor(made[h].h, k - 1)

\* ops[k] is a take chained on a filtered pipeline, and only filter or
\* reject calls, at least one, follow it.
filterAfterTake(ops, k) ==
  /\ 1 < k /\ k < Len(ops)
  /\ ops[k].m = "take"
  /\ \E i \in 1..(k - 1) : ops[i].m \in {"filter", "reject"}
  /\ \A j \in (k + 1)..Len(ops) : ops[j].m \in {"filter", "reject"}

\* C29: value() of a chain that continues a take on a filtered pipeline
\* with filter or reject calls returns the result of that take filtered
\* by those calls.
C29_TakeBoundsLater ==
  [][LET ops == hist(out'.h)
     IN out'.m = "value" =>
          \A k \in 1..Len(ops) : filterAfterTake(ops, k) =>
            out'.v = eagerChain(SubSeq(ops, k + 1, Len(ops)), 1,
                                valueNow(ancestor(out'.h, Len(ops) - k)))
    ]_vars

\* C30: no call of a chain of map, filter, reject, take, drop, their Right
\* and While variants, slice, first, last and reverse, and no value() of
\* it, changes the length or the elements of the wrapped source array.
C30_SourceNotModified ==
  [][arrays'[1] = arrays[1]]_vars

====
